---- MODULE Spec2Model ----
(***************************************************************************)
(* Verification model of the USDB-Syncer video transcoder core:            *)
(*   src/core/audio_normalizer.py  two-pass loudnorm normalization         *)
(*   src/codecs.py                 codec command builders                  *)
(*                                                                         *)
(* Conventions.                                                            *)
(*  - A Python float is a record [t, v]: t = "fin" with v the value as an   *)
(*    integer count of 1/10000, or t in {"nan", "inf", "-inf"} (v = 0).    *)
(*    An absent Optional[float] is NoneF.  Other optional values are       *)
(*    sequences of length at most one (<<>> is None).                      *)
(*  - An ffmpeg command is a sequence of string tokens.                    *)
(*  - Captured diagnostic text is a sequence of text tokens (see TokLen);  *)
(*    a diagnostic line is a short token sequence ending in "nl".          *)
(***************************************************************************)
EXTENDS Integers, Sequences, FiniteSets, TLC

NoneF == [t |-> "none", v |-> 0]
F(n) == [t |-> "fin", v |-> n]
\* the float -0.0: finite, equal to 0.0 as a number, with the sign bit set
NegZero == [t |-> "fin", v |-> 0, neg |-> TRUE]
NaN == [t |-> "nan", v |-> 0]
Inf == [t |-> "inf", v |-> 0]

Min(a, b) == IF a <= b THEN a ELSE b
Max(a, b) == IF a >= b THEN a ELSE b

(***************************************************************************)
(* Numbers and their rendering                                             *)
(***************************************************************************)

\* math.isfinite
isfinite(x) == x.t = "fin"

Digit(d) ==
    CASE d = 0 -> "0" [] d = 1 -> "1" [] d = 2 -> "2" [] d = 3 -> "3"
      [] d = 4 -> "4" [] d = 5 -> "5" [] d = 6 -> "6" [] d = 7 -> "7"
      [] d = 8 -> "8" [] d = 9 -> "9"

\* decimal digits of a natural number, most significant first
RECURSIVE Digits(_)
Digits(n) == IF n < 10 THEN <<Digit(n)>>
             ELSE Append(Digits(n \div 10), Digit(n % 10))

\* f"{value:.3f}" as a sequence of characters: sign, integer digits, ".",
\* exactly three decimals; the value is rounded to the nearest 1/1000
\* (a binary float is never exactly halfway between two 3-decimal values;
\* the halfway case of the integer representation rounds to even).
Fixed3(x) ==
    LET value  == x.v
        mag    == IF value < 0 THEN -value ELSE value
        q      == mag \div 10
        r      == mag % 10
        milli  == IF r > 5 \/ (r = 5 /\ q % 2 = 1) THEN q + 1 ELSE q
        ip     == milli \div 1000
        fp     == milli % 1000
        sign   == IF value < 0 \/ "neg" \in DOMAIN x THEN <<"-">> ELSE <<>>
    IN sign \o Digits(ip) \o <<".">>
            \o <<Digit(fp \div 100), Digit((fp \div 10) % 10), Digit(fp % 10)>>

\* str.rstrip(ch) on a character sequence
RECURSIVE rstrip(_, _)
rstrip(s, ch) == IF s # <<>> /\ s[Len(s)] = ch
                 THEN rstrip(SubSeq(s, 1, Len(s) - 1), ch)
                 ELSE s

\* "".join(chars)
RECURSIVE Join(_)
Join(s) == IF s = <<>> THEN "" ELSE s[1] \o Join(Tail(s))

\* _format_num: three decimals, trailing zeros and point stripped
format_num(value) ==
    IF ~isfinite(value) THEN "0"
    ELSE Join(rstrip(rstrip(Fixed3(value), "0"), "."))

(***************************************************************************)
(* Targets, measurements, pass-2 filter, injection                         *)
(***************************************************************************)

LoudnormTargets(i, tp, lra) ==
    [integrated_lufs |-> i, true_peak_dbtp |-> tp, lra_lu |-> lra]

LoudnormMeasurements(i, tp, lra, th, off) ==
    [measured_I |-> i, measured_TP |-> tp, measured_LRA |-> lra,
     measured_thresh |-> th, offset |-> off]

\* a variant that emits the loudness-range target before the true-peak target
build_loudnorm_pass2_filter_Swapped(targets, meas) ==
    "loudnorm=I=" \o format_num(targets.integrated_lufs) \o ":"
    \o (IF targets.lra_lu # NoneF
        THEN "LRA=" \o format_num(targets.lra_lu) \o ":" ELSE "")
    \o (IF targets.true_peak_dbtp # NoneF
        THEN "TP=" \o format_num(targets.true_peak_dbtp) \o ":" ELSE "")
    \o "measured_I=" \o format_num(meas.measured_I) \o ":"
    \o "measured_TP=" \o format_num(meas.measured_TP) \o ":"
    \o "measured_LRA=" \o format_num(meas.measured_LRA) \o ":"
    \o "measured_thresh=" \o format_num(meas.measured_thresh) \o ":"
    \o "offset=" \o format_num(meas.offset)

build_loudnorm_pass2_filter(targets, meas) ==
    "loudnorm=I=" \o format_num(targets.integrated_lufs) \o ":"
    \o (IF targets.true_peak_dbtp # NoneF
        THEN "TP=" \o format_num(targets.true_peak_dbtp) \o ":" ELSE "")
    \o (IF targets.lra_lu # NoneF
        THEN "LRA=" \o format_num(targets.lra_lu) \o ":" ELSE "")
    \o "measured_I=" \o format_num(meas.measured_I) \o ":"
    \o "measured_TP=" \o format_num(meas.measured_TP) \o ":"
    \o "measured_LRA=" \o format_num(meas.measured_LRA) \o ":"
    \o "measured_thresh=" \o format_num(meas.measured_thresh) \o ":"
    \o "offset=" \o format_num(meas.offset)

build_replaygain_filter == "replaygain"

\* a variant that appends the filter after the output path
inject_audio_filter_AtEnd(cmd, filter_str) ==
    IF Len(cmd) < 2 THEN cmd ELSE cmd \o <<"-af", filter_str>>

inject_audio_filter(cmd, filter_str) ==
    IF Len(cmd) < 2 THEN cmd
    ELSE LET out_idx == Len(cmd) - 1
         IN SubSeq(cmd, 1, out_idx) \o <<"-af", filter_str>>
            \o SubSeq(cmd, out_idx + 1, Len(cmd))

(***************************************************************************)
(* Diagnostic text, JSON values                                            *)
(*                                                                         *)
(* A text token is a record [k, o]:                                        *)
(*   k = "nl"  a newline (whitespace)                                      *)
(*   k = "x"   a run of diagnostic text without braces                     *)
(*   k = "{", k = "}"   a brace                                            *)
(*   k = "m"   the member list of a JSON object (o maps keys to values)    *)
(* A JSON value is a record [t, v]:                                        *)
(*   "num" a finite number v; "nan", "inf" the literals NaN, Infinity;     *)
(*   "numstr" a string that float() parses to the finite v; "infstr" a     *)
(*   string that float() parses to infinity; "str" any other string;       *)
(*   "null"; "list" an array; "bigint" an integer literal beyond the       *)
(*   range of float.                                                       *)
(***************************************************************************)

EmptyObj == [key \in {} |-> NoneF]

Tok(kind) == [k |-> kind, o |-> EmptyObj]
NL == Tok("nl")
Junk == Tok("x")
LBrace == Tok("{")
RBrace == Tok("}")
Members(obj) == [k |-> "m", o |-> obj]

\* length in characters of the junk run, of a member list and of the
\* statistics of a progress line
JunkLen == 600
MembersLen == 120
MarkerLen == 60

\* len() of the text a token stands for
TokLen(tok) ==
    CASE tok.k = "x" -> JunkLen
      [] tok.k = "m" -> MembersLen
      [] tok.k = "time" -> MarkerLen
      [] OTHER -> 1

RECURSIVE TextLen(_)
TextLen(text) == IF text = <<>> THEN 0 ELSE TokLen(text[1]) + TextLen(Tail(text))

\* "".join(stderr_lines)
RECURSIVE JoinLines(_)
JoinLines(lines) == IF lines = <<>> THEN <<>> ELSE lines[1] \o JoinLines(Tail(lines))

\* str.strip(): drop leading and trailing whitespace
RECURSIVE lstrip_ws(_)
lstrip_ws(text) == IF text # <<>> /\ text[1].k = "nl" THEN lstrip_ws(Tail(text)) ELSE text
RECURSIVE rstrip_ws(_)
rstrip_ws(text) == IF text # <<>> /\ text[Len(text)].k = "nl"
                   THEN rstrip_ws(SubSeq(text, 1, Len(text) - 1)) ELSE text
strip(text) == rstrip_ws(lstrip_ws(text))

\* number of characters of the tail kept in the failure message
TailChars == 1000

\* s[-n:] of a text: the tokens holding the last n characters, and the number
\* of characters cut from the front of the first of them (cut)
RECURSIVE LastChars(_, _)
LastChars(text, n) ==
    IF text = <<>> \/ n <= 0 THEN [cut |-> 0, toks |-> <<>>]
    ELSE LET last == text[Len(text)]
         IN IF TokLen(last) >= n
            THEN [cut |-> TokLen(last) - n, toks |-> <<last>>]
            ELSE LET rest == LastChars(SubSeq(text, 1, Len(text) - 1), n - TokLen(last))
                 IN [cut |-> rest.cut, toks |-> Append(rest.toks, last)]

\* a variant that keeps the head of the text instead of its tail
RECURSIVE FirstToks(_, _)
FirstToks(text, n) ==
    IF text = <<>> \/ n <= 0 THEN <<>>
    ELSE <<text[1]>> \o FirstToks(Tail(text), n - TokLen(text[1]))
StderrTail_Head(lines) == [cut |-> 0, toks |-> FirstToks(strip(JoinLines(lines)), TailChars)]

\* stderr_text.strip()[-1000:]
StderrTail(lines) == LastChars(strip(JoinLines(lines)), TailChars)

(***************************************************************************)
(* _parse_loudnorm_json                                                    *)
(***************************************************************************)

\* index of the first token of kind `kind` at or after position p, 0 if none
RECURSIVE FindTok(_, _, _)
FindTok(text, kind, p) ==
    IF p > Len(text) THEN 0
    ELSE IF text[p].k = kind THEN p
    ELSE FindTok(text, kind, p + 1)

\* re.findall(r"\{[\s\S]*?\}", text) scanning from position p: each match runs
\* from the next "{" to the nearest "}" after it; matches do not overlap
RECURSIVE findall_braces(_, _)
findall_braces(text, p) ==
    LET i == FindTok(text, "{", p)
        j == IF i = 0 THEN 0 ELSE FindTok(text, "}", i + 1)
    IN IF i = 0 \/ j = 0 THEN <<>>
       ELSE <<SubSeq(text, i, j)>> \o findall_braces(text, j + 1)

\* json.loads(blob) of a blob "{ ... }": <<obj>>, or <<>> for JSONDecodeError.
\* Whitespace is allowed around one member list; anything else between the
\* braces (text, a further "{", a second member list) does not parse.
json_loads(blob) ==
    LET inner == SelectSeq(SubSeq(blob, 2, Len(blob) - 1), LAMBDA t : t.k # "nl")
    IN IF inner = <<>> THEN <<EmptyObj>>
       ELSE IF Len(inner) = 1 /\ inner[1].k = "m" THEN <<inner[1].o>>
       ELSE <<>>

RequiredKeys == {"input_i", "input_tp", "input_lra", "input_thresh"}

\* the loop of _parse_loudnorm_json over the candidates
RECURSIVE last_good_of(_, _)
last_good_of(candidates, last_good) ==
    IF candidates = <<>> THEN last_good
    ELSE LET obj == json_loads(candidates[1])
         IN IF obj = <<>> THEN last_good_of(Tail(candidates), last_good)
            ELSE IF RequiredKeys \subseteq DOMAIN obj[1]
                 THEN last_good_of(Tail(candidates), obj)
                 ELSE last_good_of(Tail(candidates), last_good)

\* <<obj>> on success, <<>> when ValueError("Could not locate ...") is raised
parse_loudnorm_json(stderr_text) == last_good_of(findall_braces(stderr_text, 1), <<>>)

(***************************************************************************)
(* _is_finite_number, _extract_measurements                                *)
(***************************************************************************)

\* float(value): a float, or the exception raised
python_float(value) ==
    CASE value.t \in {"num", "numstr"} -> F(value.v)
      [] value.t = "nan" -> NaN
      [] value.t \in {"inf", "infstr"} -> Inf
      [] value.t = "str" -> [t |-> "ValueError", v |-> 0]
      [] value.t = "bigint" -> [t |-> "OverflowError", v |-> 0]
      [] OTHER -> [t |-> "TypeError", v |-> 0]

\* "True", "False", or the exception that escapes (only TypeError and
\* ValueError are caught)
is_finite_number(value) ==
    LET x == python_float(value)
    IN IF x.t \in {"TypeError", "ValueError"} THEN "False"
       ELSE IF x.t = "OverflowError" THEN "OverflowError"
       ELSE IF isfinite(x) THEN "True" ELSE "False"

\* obj.get(key)
get(obj, key) == IF key \in DOMAIN obj THEN obj[key] ELSE [t |-> "null", v |-> 0]

\* the five fields in the order of the `fields` dict, with their JSON keys
FieldNames == <<"measured_I", "measured_TP", "measured_LRA", "measured_thresh", "offset">>
FieldKeys == <<"input_i", "input_tp", "input_lra", "input_thresh", "target_offset">>

\* [status, bad, meas]: status "ok" with meas = <<measurements>>; "ValueError"
\* with bad the names in the message; or "OverflowError" escaping from float()
extract_measurements(obj) ==
    LET val(i) == get(obj, FieldKeys[i])
        idx == <<1, 2, 3, 4, 5>>
        bad == SelectSeq(idx, LAMBDA i : is_finite_number(val(i)) = "False")
    IN IF \E i \in 1..5 : is_finite_number(val(i)) = "OverflowError"
       THEN [status |-> "OverflowError", bad |-> <<>>, meas |-> <<>>]
       ELSE IF bad # <<>>
       THEN [status |-> "ValueError", bad |-> [j \in 1..Len(bad) |-> FieldNames[bad[j]]],
             meas |-> <<>>]
       ELSE [status |-> "ok", bad |-> <<>>,
             meas |-> <<LoudnormMeasurements(python_float(val(1)), python_float(val(2)),
                            python_float(val(3)), python_float(val(4)),
                            python_float(val(5)))>>]

(***************************************************************************)
(* Codec command builders (src/codecs.py)                                  *)
(*                                                                         *)
(* A path is a record [stem, suffix]; a builder returns [status, cmd] with *)
(* status "ok", or "ValueError" (cmd = <<>>) when it raises.               *)
(* A cap of the general settings that is not configured is 0 (or <<>> for  *)
(* the resolution); a decoder name that is None is "".                     *)
(***************************************************************************)

\* str(n) of an int
IntStr(n) == IF n < 0 THEN "-" \o Join(Digits(-n)) ELSE Join(Digits(n))

\* str(x) of a finite float: shortest representation, at least one decimal
FloatStr(x) ==
    LET mag   == IF x.v < 0 THEN -x.v ELSE x.v
        fp    == mag % 10000
        frac  == rstrip(<<Digit(fp \div 1000), Digit((fp \div 100) % 10),
                          Digit((fp \div 10) % 10), Digit(fp % 10)>>, "0")
    IN (IF x.v < 0 THEN "-" ELSE "") \o Join(Digits(mag \div 10000)) \o "."
       \o (IF frac = <<>> THEN "0" ELSE Join(frac))

\* str(path)
PathStr(path) == path.stem \o path.suffix

\* path.suffix.lower()
SuffixLower(path) ==
    CASE path.suffix = ".MP4" -> ".mp4"
      [] path.suffix = ".MOV" -> ".mov"
      [] path.suffix = ".M4A" -> ".m4a"
      [] OTHER -> path.suffix

Ok(cmd) == [status |-> "ok", cmd |-> cmd]
Raise(kind) == [status |-> kind, cmd |-> <<>>]

\* str.lower() on the codec and profile names that occur
Lower(name) ==
    CASE name = "H264" -> "h264"
      [] name = "VP8" -> "vp8"
      [] name = "HEVC" -> "hevc"
      [] name = "High" -> "high"
      [] name = "Main" -> "main"
      [] name = "Constrained Baseline" -> "constrained baseline"
      [] OTHER -> name

\* CodecHandler.get_qsv_decoder: the static decoder lookup ("" for None)
get_qsv_decoder(video_info) ==
    LET codec_name == Lower(video_info.codec_name)
    IN CASE codec_name = "h264" -> "h264_qsv"
         [] codec_name = "hevc" -> "hevc_qsv"
         [] codec_name = "h265" -> "hevc_qsv"
         [] codec_name = "vp9" -> "vp9_qsv"
         [] codec_name = "mpeg2video" -> "mpeg2_qsv"
         [] codec_name = "vc1" -> "vc1_qsv"
         [] codec_name = "av1" -> "av1_qsv"
         [] codec_name = "mjpeg" -> "mjpeg_qsv"
         [] OTHER -> ""

\* the accelerator's get_decoder: the static lookup for the stream's codec
\* when the accelerator affirms that hardware decoding is usable
get_decoder(accel, video_info) ==
    IF accel.affirms THEN get_qsv_decoder(video_info) ELSE ""

\* a variant that falls back to the static lookup without an accelerator
get_hw_decoder_StaticFallback(video_info, accel) ==
    IF ~accel.present THEN get_qsv_decoder(video_info)
    ELSE get_decoder(accel, video_info)

\* CodecHandler.get_hw_decoder
get_hw_decoder(video_info, accel) ==
    IF ~accel.present THEN "" ELSE get_decoder(accel, video_info)

\* `if hw_decode_enabled: if decoder := cls.get_hw_decoder(...)`
HwDecoderArgs(a) ==
    IF a.hw_decode_enabled /\ get_hw_decoder(a.video_info, a.accel) # ""
    THEN <<"-c:v", get_hw_decoder(a.video_info, a.accel)>>
    ELSE <<>>

\* the optional rate caps
RateCapArgs(cfgc) ==
    IF cfgc.max_bitrate_kbps # 0
    THEN <<"-maxrate", IntStr(cfgc.max_bitrate_kbps) \o "k",
           "-bufsize", IntStr(cfgc.max_bitrate_kbps * 2) \o "k">>
    ELSE <<>>

ScaleFit(w, h) ==
    "scale='min(iw," \o IntStr(w) \o ")':'min(ih," \o IntStr(h)
    \o ")':force_original_aspect_ratio=decrease"

ScalePad(w, h) ==
    "scale=" \o IntStr(w) \o ":" \o IntStr(h)
    \o ":force_original_aspect_ratio=decrease,pad=" \o IntStr(w) \o ":" \o IntStr(h)
    \o ":(ow-iw)/2:(oh-ih)/2"

FpsFilter(cfgc) == IF cfgc.max_fps # 0 THEN <<"fps=fps=" \o IntStr(cfgc.max_fps)>> ELSE <<>>

\* ",".join(vf)
RECURSIVE JoinComma(_)
JoinComma(vf) == IF Len(vf) = 1 THEN vf[1] ELSE vf[1] \o "," \o JoinComma(Tail(vf))

VfArgs(vf) == IF vf # <<>> THEN <<"-vf", JoinComma(vf)>> ELSE <<>>

\* the video filters of the H264, VP8 and HEVC handlers
VideoFilterArgs(cfgc) ==
    LET scale == IF cfgc.max_resolution = <<>> THEN <<>>
                 ELSE IF cfgc.use_usdb_resolution
                 THEN <<ScaleFit(cfgc.max_resolution[1], cfgc.max_resolution[2])>>
                 ELSE <<ScalePad(cfgc.max_resolution[1], cfgc.max_resolution[2])>>
    IN VfArgs(scale \o FpsFilter(cfgc))

\* the video filters of the VP9 and AV1 handlers
VideoFilterArgsFit(cfgc) ==
    LET scale == IF cfgc.max_resolution = <<>> THEN <<>>
                 ELSE <<ScaleFit(cfgc.max_resolution[1], cfgc.max_resolution[2])>>
    IN VfArgs(scale \o FpsFilter(cfgc))

\* a variant that stream-copies whatever audio the source has
AudioArgsMp4_CopyAny(video_info) ==
    IF video_info.has_audio THEN <<"-c:a", "copy">> ELSE <<"-an">>

\* audio of an MP4-family video output
AudioArgsMp4(video_info) ==
    IF video_info.has_audio
    THEN IF video_info.audio_codec \in {"aac", "mp3", "alac"}
         THEN <<"-c:a", "copy">>
         ELSE <<"-c:a", "aac", "-b:a", "192k">>
    ELSE <<"-an">>

\* audio of a WebM/MKV-family video output
AudioArgsWebm(video_info) ==
    IF video_info.has_audio
    THEN IF video_info.audio_codec \in {"opus", "vorbis"}
         THEN <<"-c:a", "copy">>
         ELSE <<"-c:a", "libopus", "-b:a", "160k">>
    ELSE <<"-an">>

\* a variant that adds the flag whatever the extension
FastStartArgs_Always(output_path) == <<"-movflags", "+faststart">>

\* the fast-start flag of the H264, HEVC and AV1 handlers
FastStartArgs(output_path) ==
    IF SuffixLower(output_path) \in {".mp4", ".mov"}
    THEN <<"-movflags", "+faststart">> ELSE <<>>

\* the per-codec settings, fixed
H264Cfg == [preset |-> "slow", profile |-> "high", crf |-> 18, pixel_format |-> "yuv420p"]
HEVCCfg == [preset |-> "faster", profile |-> "main", crf |-> 20, pixel_format |-> "yuv420p"]
VP8Cfg == [crf |-> 10, cpu_used |-> 4]
VP9Cfg == [crf |-> 20, cpu_used |-> 4, deadline |-> "good"]
AV1Cfg == [crf |-> 20, cpu_used |-> 8]

H264_build_encode_command(a) ==
    Ok(<<"ffmpeg", "-y", "-hide_banner">>
       \o HwDecoderArgs(a)
       \o <<"-i", PathStr(a.input_path)>>
       \o (IF a.hw_encode_enabled /\ a.accel.present
           THEN <<"-c:v", "h264_qsv", "-preset", H264Cfg.preset,
                  "-profile:v", H264Cfg.profile,
                  "-global_quality", IntStr(H264Cfg.crf),
                  "-look_ahead", "1", "-pix_fmt", "nv12">>
           ELSE <<"-c:v", "libx264", "-preset", H264Cfg.preset,
                  "-profile:v", H264Cfg.profile, "-crf", IntStr(H264Cfg.crf),
                  "-pix_fmt", H264Cfg.pixel_format>>)
       \o <<"-vsync", "cfr">>
       \o RateCapArgs(a.cfg)
       \o VideoFilterArgs(a.cfg)
       \o AudioArgsMp4(a.video_info)
       \o FastStartArgs(a.output_path)
       \o <<PathStr(a.output_path)>>)

VP8_build_encode_command(a) ==
    Ok(<<"ffmpeg", "-y", "-hide_banner">>
       \o HwDecoderArgs(a)
       \o <<"-i", PathStr(a.input_path)>>
       \o <<"-c:v", "libvpx", "-crf", IntStr(VP8Cfg.crf), "-b:v", "0",
            "-cpu-used", IntStr(VP8Cfg.cpu_used), "-deadline", "good",
            "-auto-alt-ref", "1", "-lag-in-frames", "16",
            "-pix_fmt", "yuv420p", "-vsync", "cfr">>
       \o RateCapArgs(a.cfg)
       \o VideoFilterArgs(a.cfg)
       \o AudioArgsWebm(a.video_info)
       \o <<PathStr(a.output_path)>>)

HEVC_build_encode_command(a) ==
    Ok(<<"ffmpeg", "-y", "-hide_banner">>
       \o HwDecoderArgs(a)
       \o <<"-i", PathStr(a.input_path)>>
       \o (IF a.hw_encode_enabled /\ a.accel.present
           THEN <<"-c:v", "hevc_qsv", "-preset", HEVCCfg.preset,
                  "-profile:v", HEVCCfg.profile,
                  "-global_quality", IntStr(HEVCCfg.crf),
                  "-rc_mode", "icq", "-pix_fmt", "nv12">>
           ELSE <<"-c:v", "libx265", "-preset", HEVCCfg.preset,
                  "-profile:v", HEVCCfg.profile, "-crf", IntStr(HEVCCfg.crf),
                  "-tag:v", "hvc1", "-pix_fmt", HEVCCfg.pixel_format>>)
       \o <<"-vsync", "cfr">>
       \o RateCapArgs(a.cfg)
       \o VideoFilterArgs(a.cfg)
       \o AudioArgsMp4(a.video_info)
       \o FastStartArgs(a.output_path)
       \o <<PathStr(a.output_path)>>)

VP9_build_encode_command(a) ==
    Ok(<<"ffmpeg", "-y", "-hide_banner">>
       \o HwDecoderArgs(a)
       \o <<"-i", PathStr(a.input_path)>>
       \o (IF a.hw_encode_enabled /\ a.accel.present
           THEN <<"-c:v", "vp9_qsv", "-global_quality", IntStr(VP9Cfg.crf),
                  "-pix_fmt", "nv12">>
           ELSE <<"-c:v", "libvpx-vp9", "-crf", IntStr(VP9Cfg.crf), "-b:v", "0",
                  "-deadline", VP9Cfg.deadline, "-cpu-used", IntStr(VP9Cfg.cpu_used),
                  "-row-mt", "1", "-tile-columns", "2", "-g", "240",
                  "-pix_fmt", "yuv420p">>)
       \o <<"-vsync", "cfr">>
       \o RateCapArgs(a.cfg)
       \o VideoFilterArgsFit(a.cfg)
       \o AudioArgsWebm(a.video_info)
       \o <<PathStr(a.output_path)>>)

\* utils.check_encoder_available: a probe of the installed encoders
check_encoder_available(name, encoders) == name \in encoders

AV1_build_encode_command(a) ==
    Ok(<<"ffmpeg", "-y", "-hide_banner">>
       \o HwDecoderArgs(a)
       \o <<"-i", PathStr(a.input_path)>>
       \o (IF a.hw_encode_enabled /\ a.accel.present
           THEN <<"-c:v", "av1_qsv", "-rc_mode", "icq",
                  "-global_quality", IntStr(AV1Cfg.crf), "-pix_fmt", "nv12">>
           ELSE IF check_encoder_available("libsvtav1", a.encoders)
           THEN <<"-c:v", "libsvtav1", "-crf", IntStr(AV1Cfg.crf),
                  "-preset", IntStr(AV1Cfg.cpu_used), "-g", "240",
                  "-pix_fmt", "yuv420p10le">>
           ELSE IF check_encoder_available("libaom-av1", a.encoders)
           THEN <<"-c:v", "libaom-av1", "-crf", IntStr(AV1Cfg.crf),
                  "-cpu-used", IntStr(AV1Cfg.cpu_used), "-g", "240",
                  "-pix_fmt", "yuv420p10le">>
           ELSE <<"-c:v", "av1">>)
       \o <<"-vsync", "cfr">>
       \o RateCapArgs(a.cfg)
       \o VideoFilterArgsFit(a.cfg)
       \o (IF SuffixLower(a.output_path) \in {".mp4", ".mov"}
           THEN AudioArgsMp4(a.video_info)
           ELSE AudioArgsWebm(a.video_info))
       \o FastStartArgs(a.output_path)
       \o <<PathStr(a.output_path)>>)

\* _ensure_int_in_range / _ensure_float_in_range: TRUE when they return,
\* FALSE when they raise ValueError
\* a variant that rejects the boundary values
ensure_in_range_Open(value, low, high) == ~(value <= low \/ value >= high)

ensure_in_range(value, low, high) == ~(value < low \/ value > high)

\* a variant that places the stream selection before the input
audio_common_prefix_MapFirst(input_path) ==
    <<"ffmpeg", "-y", "-hide_banner", "-map", "0:a:0?", "-i", PathStr(input_path),
      "-vn", "-sn", "-dn">>

\* a variant that leaves subtitle streams enabled
audio_common_prefix_KeepSubtitles(input_path) ==
    <<"ffmpeg", "-y", "-hide_banner", "-i", PathStr(input_path), "-map", "0:a:0?",
      "-vn", "-dn">>

\* _audio_common_prefix
audio_common_prefix(input_path) ==
    <<"ffmpeg", "-y", "-hide_banner", "-i", PathStr(input_path), "-map", "0:a:0?",
      "-vn", "-sn", "-dn">>

\* _audio_force_extension: TRUE when it returns, FALSE when it raises;
\* the extension is path.suffix.lower().lstrip(".")
audio_force_extension(path, extensions) ==
    SuffixLower(path) \in {"." \o e : e \in extensions}

MP3_build_encode_command(a) ==
    IF ~ensure_in_range(a.cfg.mp3_quality, 0, 9) THEN Raise("ValueError")
    ELSE IF ~audio_force_extension(a.output_path, {"mp3"}) THEN Raise("ValueError")
    ELSE Ok(audio_common_prefix(a.input_path)
            \o (IF a.stream_copy THEN <<"-c:a", "copy">>
                ELSE <<"-c:a", "libmp3lame", "-q:a", IntStr(a.cfg.mp3_quality)>>)
            \o <<PathStr(a.output_path)>>)

Vorbis_build_encode_command(a) ==
    IF ~ensure_in_range(a.cfg.vorbis_quality.v, -10000, 100000) THEN Raise("ValueError")
    ELSE IF ~audio_force_extension(a.output_path, {"ogg"}) THEN Raise("ValueError")
    ELSE Ok(audio_common_prefix(a.input_path)
            \o (IF a.stream_copy THEN <<"-c:a", "copy">>
                ELSE <<"-c:a", "libvorbis", "-q:a", FloatStr(a.cfg.vorbis_quality)>>)
            \o <<PathStr(a.output_path)>>)

AAC_build_encode_command(a) ==
    IF ~ensure_in_range(a.cfg.aac_vbr_mode, 1, 5) THEN Raise("ValueError")
    ELSE IF ~audio_force_extension(a.output_path, {"m4a", "mp4"}) THEN Raise("ValueError")
    ELSE Ok(audio_common_prefix(a.input_path)
            \o (IF a.stream_copy THEN <<"-c:a", "copy">>
                ELSE <<"-c:a", "aac", "-vbr", IntStr(a.cfg.aac_vbr_mode)>>)
            \o (IF SuffixLower(a.output_path) \in {".m4a", ".mp4", ".mov"}
                THEN <<"-movflags", "+faststart">> ELSE <<>>)
            \o <<PathStr(a.output_path)>>)

Opus_build_encode_command(a) ==
    IF ~ensure_in_range(a.cfg.opus_bitrate_kbps, 6, 510) THEN Raise("ValueError")
    ELSE IF ~audio_force_extension(a.output_path, {"opus"}) THEN Raise("ValueError")
    ELSE Ok(audio_common_prefix(a.input_path)
            \o (IF a.stream_copy THEN <<"-c:a", "copy">>
                ELSE <<"-c:a", "libopus", "-b:a", IntStr(a.cfg.opus_bitrate_kbps) \o "k">>)
            \o <<PathStr(a.output_path)>>)

\* a variant that forgets the pixel format
H264_is_compatible_AnyPixelFormat(video_info) ==
    IF Lower(video_info.codec_name) \notin {"h264", "avc"} THEN FALSE
    ELSE IF video_info.profile # ""
            /\ Lower(video_info.profile) \notin {"baseline", "main", "high"} THEN FALSE
    ELSE TRUE

\* H264Handler.is_compatible; a profile that is None or empty is ""
H264_is_compatible(video_info) ==
    IF Lower(video_info.codec_name) \notin {"h264", "avc"} THEN FALSE
    ELSE IF video_info.pixel_format # "yuv420p" THEN FALSE
    ELSE IF video_info.profile # ""
            /\ Lower(video_info.profile) \notin {"baseline", "main", "high"} THEN FALSE
    ELSE TRUE

HEVC_is_compatible(video_info) ==
    IF Lower(video_info.codec_name) \notin {"hevc", "h265"} THEN FALSE
    ELSE IF video_info.pixel_format # "yuv420p" THEN FALSE
    ELSE TRUE

VP8_is_compatible(video_info) == Lower(video_info.codec_name) = "vp8"
VP9_is_compatible(video_info) == Lower(video_info.codec_name) = "vp9"
AV1_is_compatible(video_info) == Lower(video_info.codec_name) = "av1"

\* get_codec_handler followed by is_compatible
is_compatible(variant, video_info) ==
    CASE variant = "h264" -> H264_is_compatible(video_info)
      [] variant = "vp8" -> VP8_is_compatible(video_info)
      [] variant = "hevc" -> HEVC_is_compatible(video_info)
      [] variant = "vp9" -> VP9_is_compatible(video_info)
      [] variant = "av1" -> AV1_is_compatible(video_info)

VideoVariants == {"h264", "vp8", "hevc", "vp9", "av1"}
AudioVariants == {"mp3", "vorbis", "aac", "opus"}

\* get_codec_handler / get_audio_codec_handler followed by build_encode_command
build_encode_command(variant, a) ==
    CASE variant = "h264" -> H264_build_encode_command(a)
      [] variant = "vp8" -> VP8_build_encode_command(a)
      [] variant = "hevc" -> HEVC_build_encode_command(a)
      [] variant = "vp9" -> VP9_build_encode_command(a)
      [] variant = "av1" -> AV1_build_encode_command(a)
      [] variant = "mp3" -> MP3_build_encode_command(a)
      [] variant = "vorbis" -> Vorbis_build_encode_command(a)
      [] variant = "aac" -> AAC_build_encode_command(a)
      [] variant = "opus" -> Opus_build_encode_command(a)

(***************************************************************************)
(* The normalization protocol: maybe_apply_audio_normalization,            *)
(* analyze_loudnorm_two_pass and the external analysis process             *)
(***************************************************************************)

VARIABLES
    \* arguments of maybe_apply_audio_normalization
    base_cmd,           \* the already-built command
    cfg,                \* the normalization and timeout settings
    stream_copy,
    precomputed_meas,   \* <<>> or <<measurements>>
    cache,              \* TRUE when a performance-cache collaborator is supplied
    duration_seconds,   \* the known duration of the input, or NoneF
    \* control position of the call
    pc,
    \* locals of analyze_loudnorm_two_pass
    start_time, stderr_lines, wall_seconds,
    last_logged_percent, last_progress_log_time,
    an_exc,             \* the exception analyze_loudnorm_two_pass raised
    \* locals of maybe_apply_audio_normalization
    meas, pass2_filter, result,
    \* environment: wall clock, the analysis process, Popen calls, the cache
    now, proc, popen_calls, cache_records,
    \* the calls made on the process once the timeout is exceeded, and the
    \* progress and completion messages handed to the song logger
    proc_calls, slog,
    \* a pending call of a pure function and its result (pure-function runs)
    call, ret,
    \* the encoders the installed ffmpeg offers, as check_encoder_available reports
    encoders

argVars == <<base_cmd, cfg, stream_copy, precomputed_meas, cache, duration_seconds>>
anVars == <<start_time, stderr_lines, wall_seconds, an_exc>>
orVars == <<meas, pass2_filter, result>>
envVars == <<now, proc, popen_calls, cache_records>>
pureVars == <<call, ret, encoders>>
logVars == <<last_logged_percent, last_progress_log_time, proc_calls, slog>>
vars == <<argVars, pc, anVars, orVars, envVars, pureVars, logVars>>

\* bounds of the model: clock ticks, diagnostic lines read in one analysis
MaxClock == 3
MaxLines == 2

\* the cap on the analysis timeout (seconds)
AnalysisTimeoutCap == 300

\* time.time() when the call starts, the seconds one clock tick stands for,
\* and the last reading of the clock the model follows
ClockStart == 1000
TickSeconds == 3
ClockEnd == ClockStart + MaxClock * TickSeconds

\* line 255: the seconds the process is given after terminate()
WaitSeconds == 5

\* lines 226 and 238: progress is reported for inputs longer than
\* ProgressMinDuration seconds, and again after ProgressPeriod seconds
ProgressMinDuration == 30
ProgressPeriod == 6

NoExc == [kind |-> "none", code |-> 0, tail |-> [cut |-> 0, toks |-> <<>>], bad |-> <<>>]
NoProc == [state |-> "none", returncode |-> 0, stderr_open |-> FALSE]
NoCall == [fn |-> "none", args |-> <<>>]

\* the scenario measurements and JSON objects the analysis process may print
ScenarioMeas ==
    LoudnormMeasurements(F(-202000), F(-31000), F(74000), F(-302000), F(38000))
GoodObj ==
    [input_i |-> [t |-> "numstr", v |-> -202000], input_tp |-> [t |-> "numstr", v |-> -31000],
     input_lra |-> [t |-> "numstr", v |-> 74000], input_thresh |-> [t |-> "numstr", v |-> -302000],
     target_offset |-> [t |-> "numstr", v |-> 38000]]
GoodObjDuration ==
    [input_i |-> [t |-> "numstr", v |-> -230000], input_tp |-> [t |-> "numstr", v |-> -10000],
     input_lra |-> [t |-> "numstr", v |-> 50000], input_thresh |-> [t |-> "numstr", v |-> -330000],
     target_offset |-> [t |-> "numstr", v |-> 5000], duration |-> [t |-> "num", v |-> 60000]]
\* the same measurements with a duration of 3 seconds, and with the duration
\* of 60 seconds written as a string like the other fields
GoodObjShortDuration ==
    [GoodObjDuration EXCEPT !.duration = [t |-> "num", v |-> 30000]]
GoodObjTextDuration ==
    [GoodObjDuration EXCEPT !.duration = [t |-> "numstr", v |-> 600000]]
InvalidObj ==
    [input_i |-> [t |-> "infstr", v |-> 0], input_tp |-> [t |-> "numstr", v |-> -31000],
     input_lra |-> [t |-> "numstr", v |-> 74000], input_thresh |-> [t |-> "numstr", v |-> -302000]]

Block(obj) == <<LBrace, Members(obj), RBrace, NL>>

\* a position that time_to_seconds cannot convert
Malformed == [t |-> "bad", v |-> 0]

\* a statistics line of the process, "... time=HH:MM:SS.cc ... speed=..."; its
\* position is in seconds, NoneF for "time=N/A"
TimeMark(position) == <<[k |-> "time", o |-> [time |-> position]], NL>>

\* line 226: "time=" in line
HasTimeMarker(line) == \E i \in 1..Len(line) : line[i].k = "time"

\* lines 227-230: parse_ffmpeg_progress(line).get("time") through
\* time_to_seconds: the position the line carries, NoneF when it has none
parse_ffmpeg_progress(line) ==
    LET i == CHOOSE i \in 1..Len(line) : line[i].k = "time"
    IN line[i].o.time

\* line 231: current_seconds / duration_seconds * 100, for durations given in
\* tenths of a second
Percent(current_seconds, duration) ==
    F((current_seconds.v * 1000) \div (duration.v \div 1000))

\* int(percent // 10)
Bucket(percent) == percent.v \div (10 * 10000)

\* line 226: duration_seconds and duration_seconds > 30
ProgressEnabled(duration) ==
    duration.t = "fin" /\ duration.v > ProgressMinDuration * 10000

\* lines 226-230: the line is parsed and the parsing raises; nothing in the
\* loop catches it
ProgressRaises(line, duration) ==
    /\ ProgressEnabled(duration)
    /\ HasTimeMarker(line)
    /\ parse_ffmpeg_progress(line) = Malformed

\* a variant whose periodic report does not compare the percent
ShouldLog_PeriodicAny(line, duration, last_percent, last_time, clock) ==
    /\ ProgressEnabled(duration)
    /\ HasTimeMarker(line)
    /\ parse_ffmpeg_progress(line) # NoneF
    /\ \/ Bucket(Percent(parse_ffmpeg_progress(line), duration)) > Bucket(last_percent)
       \/ clock - last_time >= ProgressPeriod

\* a variant that reports bucket crossings only
ShouldLog_BucketOnly(line, duration, last_percent, last_time, clock) ==
    /\ ProgressEnabled(duration)
    /\ HasTimeMarker(line)
    /\ parse_ffmpeg_progress(line) # NoneF
    /\ Bucket(Percent(parse_ffmpeg_progress(line), duration)) > Bucket(last_percent)

\* lines 226-240: should_log_bucket or should_log_periodic for this line
ShouldLog(line, duration, last_percent, last_time, clock) ==
    /\ ProgressEnabled(duration)
    /\ HasTimeMarker(line)
    /\ parse_ffmpeg_progress(line) # NoneF
    /\ LET percent == Percent(parse_ffmpeg_progress(line), duration)
       IN \/ Bucket(percent) > Bucket(last_percent)
          \/ /\ clock - last_time >= ProgressPeriod
             /\ percent.v > Max(last_percent.v, 0)

\* the diagnostic lines the process may emit (a JSON block stands for its lines)
Lines == {<<Junk, NL>>, <<NL>>, Block(GoodObj), Block(GoodObjDuration), Block(InvalidObj),
          Block(GoodObjShortDuration), Block(GoodObjTextDuration)}

Commands == {<<"ffmpeg">>,
             <<"ffmpeg", "-i", "in.wav", "-vn", "out.mp3">>}

Configs ==
    [enabled : BOOLEAN, method : {"loudnorm", "replaygain", "peak"},
     use_usdb_defaults : BOOLEAN, timeout_seconds : {1, 600}]

\* cfg.audio.get_usdb_target_loudness() and the custom targets, fixed
UsdbTarget == F(-180000)
CustomTargets == LoudnormTargets(F(-160000), F(-15000), F(110000))

\* lines 369-385: the targets of a loudnorm run
TargetsOf(c) ==
    IF c.use_usdb_defaults THEN LoudnormTargets(UsdbTarget, NoneF, NoneF)
    ELSE CustomTargets

\* line 393
AnalysisTimeout(c) == Min(c.timeout_seconds, AnalysisTimeoutCap)

NormInit ==
    /\ base_cmd \in Commands
    /\ cfg \in Configs
    /\ stream_copy \in BOOLEAN
    /\ precomputed_meas \in {<<>>, <<ScenarioMeas>>}
    /\ cache \in BOOLEAN
    /\ duration_seconds = NoneF
    /\ pc = "start"
    /\ start_time = 0 /\ stderr_lines = <<>> /\ wall_seconds = 0 /\ an_exc = NoExc
    /\ meas = <<>> /\ pass2_filter = "" /\ result = <<>>
    /\ now = ClockStart /\ proc = NoProc /\ popen_calls = 0 /\ cache_records = <<>>
    /\ last_logged_percent = F(-100000) /\ last_progress_log_time = 0
    /\ proc_calls = <<>> /\ slog = <<>>
    /\ call = NoCall /\ ret = <<>> /\ encoders = {}

\* a variant that runs the analysis although measurements were supplied
MaybeApply_IgnorePrecomputed ==
    /\ pc = "start"
    /\ IF ~cfg.enabled \/ stream_copy \/ cfg.method \notin {"loudnorm", "replaygain"}
       THEN /\ result' = base_cmd
            /\ pc' = "skipped"
            /\ UNCHANGED <<meas, pass2_filter>>
       ELSE IF cfg.method = "replaygain"
       THEN /\ pass2_filter' = build_replaygain_filter
            /\ pc' = "filter_built"
            /\ UNCHANGED <<meas, result>>
       ELSE /\ pc' = "popen"
            /\ UNCHANGED <<meas, pass2_filter, result>>
    /\ UNCHANGED <<argVars, anVars, envVars, pureVars, logVars>>

\* lines 357-414 up to the first blocking call: the policy checks, the targets,
\* and for precomputed measurements or replaygain the filter
MaybeApply ==
    /\ pc = "start"
    /\ IF ~cfg.enabled \/ stream_copy \/ cfg.method \notin {"loudnorm", "replaygain"}
       THEN /\ result' = base_cmd
            /\ pc' = "skipped"
            /\ UNCHANGED <<meas, pass2_filter>>
       ELSE IF cfg.method = "replaygain"
       THEN /\ pass2_filter' = build_replaygain_filter
            /\ pc' = "filter_built"
            /\ UNCHANGED <<meas, result>>
       ELSE IF precomputed_meas # <<>>
       THEN /\ meas' = precomputed_meas
            /\ pass2_filter' = build_loudnorm_pass2_filter(TargetsOf(cfg), precomputed_meas[1])
            /\ pc' = "filter_built"
            /\ UNCHANGED result
       ELSE /\ pc' = "popen"
            /\ UNCHANGED <<meas, pass2_filter, result>>
    /\ UNCHANGED <<argVars, anVars, envVars, pureVars, logVars>>

\* lines 184-201: the process is spawned, or Popen raises OSError
Popen ==
    /\ pc = "popen"
    /\ popen_calls' = popen_calls + 1
    /\ start_time' = now
    /\ \/ /\ proc' = [state |-> "running", returncode |-> 0, stderr_open |-> TRUE]
          /\ pc' = "readline"
          /\ UNCHANGED an_exc
       \/ /\ an_exc' = [NoExc EXCEPT !.kind = "OSError"]
          /\ pc' = "an_raised"
          /\ UNCHANGED proc
    /\ last_logged_percent' = F(-100000)
    /\ last_progress_log_time' = 0
    /\ UNCHANGED <<argVars, stderr_lines, wall_seconds, orVars, now, cache_records, pureVars,
                   proc_calls, slog>>

\* the wall clock advances while the analysis runs
Tick ==
    /\ pc \in {"popen", "readline", "wait5"}
    /\ now < ClockEnd
    /\ now' = now + TickSeconds
    /\ UNCHANGED <<argVars, pc, anVars, orVars, proc, popen_calls, cache_records, pureVars, logVars>>

\* the process closes its diagnostic stream and keeps running
ProcCloseStderr ==
    /\ proc.state = "running" /\ proc.stderr_open
    /\ pc = "readline"
    /\ proc' = [proc EXCEPT !.stderr_open = FALSE]
    /\ UNCHANGED <<argVars, pc, anVars, orVars, now, popen_calls, cache_records, pureVars, logVars>>

\* the process exits on its own
ProcExit(code) ==
    /\ proc.state = "running"
    /\ pc = "readline"
    /\ proc' = [state |-> "exited", returncode |-> code, stderr_open |-> FALSE]
    /\ UNCHANGED <<argVars, pc, anVars, orVars, now, popen_calls, cache_records, pureVars, logVars>>

\* lines 210-259, one iteration with a line: the process has written `line`,
\* readline returns it, it is captured, progress is reported, and the timeout
\* is checked; past the timeout the process is asked to terminate
ReadLine(line) ==
    /\ pc = "readline"
    /\ proc.state = "running" /\ proc.stderr_open
    /\ Len(stderr_lines) < MaxLines
    /\ stderr_lines' = Append(stderr_lines, line)
    /\ IF ProgressRaises(line, duration_seconds)
       THEN /\ an_exc' = [NoExc EXCEPT !.kind = "progress"]
            /\ pc' = "an_raised"
            /\ UNCHANGED <<slog, last_logged_percent, last_progress_log_time, proc_calls>>
       ELSE /\ IF ShouldLog(line, duration_seconds, last_logged_percent,
                            last_progress_log_time, now)
               THEN LET percent == Percent(parse_ffmpeg_progress(line), duration_seconds)
                    IN /\ slog' = Append(slog, [kind |-> "progress", percent |-> percent,
                                                at |-> now])
                       /\ last_logged_percent' = F(Max(last_logged_percent.v, percent.v))
                       /\ last_progress_log_time' = now
               ELSE UNCHANGED <<slog, last_logged_percent, last_progress_log_time>>
            /\ IF now - start_time > AnalysisTimeout(cfg)
               THEN /\ proc_calls' = Append(proc_calls, "terminate")
                    /\ pc' = "wait5"
               ELSE /\ pc' = "readline"
                    /\ UNCHANGED proc_calls
            /\ UNCHANGED an_exc
    /\ UNCHANGED <<argVars, start_time, wall_seconds, orVars, envVars, pureVars>>

\* lines 210-212: readline returns "" at end of stream and the process has
\* exited: the loop is left
ReadEOF_Break ==
    /\ pc = "readline"
    /\ ~proc.stderr_open /\ proc.state = "exited"
    /\ pc' = "after_loop"
    /\ UNCHANGED <<argVars, anVars, orVars, envVars, pureVars, logVars>>

\* lines 210-215: readline returns "" at end of stream while the process is
\* still running: `continue`, back to readline, the timeout is not checked
ReadEOF_Continue ==
    /\ pc = "readline"
    /\ ~proc.stderr_open /\ proc.state = "running"
    /\ UNCHANGED vars

\* a variant that kills the process although it exited within the wait
TerminateExited_KillAnyway ==
    /\ pc = "wait5"
    /\ proc' = [state |-> "exited", returncode |-> 255, stderr_open |-> FALSE]
    /\ proc_calls' = proc_calls \o <<"wait5", "kill", "wait">>
    /\ an_exc' = [NoExc EXCEPT !.kind = "timeout"]
    /\ pc' = "an_raised"
    /\ UNCHANGED <<argVars, start_time, stderr_lines, wall_seconds, orVars,
                   now, popen_calls, cache_records, pureVars,
                   last_logged_percent, last_progress_log_time, slog>>

\* lines 253-259 and 278-279: after terminate(), wait(timeout=5) returns because
\* the process exited, and the timeout failure is raised
TerminateExited ==
    /\ pc = "wait5"
    /\ proc' = [state |-> "exited", returncode |-> 255, stderr_open |-> FALSE]
    /\ proc_calls' = Append(proc_calls, "wait5")
    /\ an_exc' = [NoExc EXCEPT !.kind = "timeout"]
    /\ pc' = "an_raised"
    /\ UNCHANGED <<argVars, start_time, stderr_lines, wall_seconds, orVars,
                   now, popen_calls, cache_records, pureVars,
                   last_logged_percent, last_progress_log_time, slog>>

\* lines 253-259 and 278-279: wait(timeout=5) expires with the process alive;
\* it is killed and waited for, and the timeout failure is raised
TerminateExpired ==
    /\ pc = "wait5"
    /\ proc.state = "running"
    /\ proc' = [state |-> "exited", returncode |-> -9, stderr_open |-> FALSE]
    /\ proc_calls' = proc_calls \o <<"wait5", "kill", "wait">>
    /\ now' = Min(now + WaitSeconds, ClockEnd)
    /\ an_exc' = [NoExc EXCEPT !.kind = "timeout"]
    /\ pc' = "an_raised"
    /\ UNCHANGED <<argVars, start_time, stderr_lines, wall_seconds, orVars,
                   popen_calls, cache_records, pureVars,
                   last_logged_percent, last_progress_log_time, slog>>

\* a variant that records every positive duration
DurationRecorded_AnyPositive(obj) ==
    /\ "duration" \in DOMAIN obj
    /\ obj["duration"].t = "num"
    /\ obj["duration"].v > 0

\* line 294: duration and isinstance(duration, (int, float)) and duration > 5
DurationRecorded(obj) ==
    /\ "duration" \in DOMAIN obj
    /\ obj["duration"].t = "num"
    /\ obj["duration"].v > 5 * 10000

\* lines 264-267: the failure carries the exit code and the tail of the
\* captured text
AfterLoopExitCode ==
    [NoExc EXCEPT !.kind = "exit", !.code = proc.returncode,
                  !.tail = StderrTail(stderr_lines)]

\* line 271: duration_seconds and duration_seconds > 0 and wall_seconds > 0
CompletionLogged(duration, wall) ==
    duration.t = "fin" /\ duration.v > 0 /\ wall > 0

\* lines 261-297: the loop has ended; wait() returns at once; the exit code is
\* checked, the completion logged, the text parsed, the measurements
\* validated, the cache recorded
AfterLoop ==
    /\ pc = "after_loop"
    /\ wall_seconds' = now - start_time
    /\ slog' = IF proc.returncode = 0 /\ CompletionLogged(duration_seconds, now - start_time)
               THEN Append(slog, [kind |-> "completed", wall |-> now - start_time,
                                  duration |-> duration_seconds])
               ELSE slog
    /\ LET obj == parse_loudnorm_json(JoinLines(stderr_lines))
           ex == IF obj = <<>> THEN [status |-> "none", bad |-> <<>>, meas |-> <<>>]
                 ELSE extract_measurements(obj[1])
       IN IF proc.returncode # 0
          THEN /\ an_exc' = AfterLoopExitCode
               /\ pc' = "an_raised"
               /\ UNCHANGED <<meas, cache_records>>
          ELSE IF obj = <<>>
          THEN /\ an_exc' = [NoExc EXCEPT !.kind = "parse"]
               /\ pc' = "an_raised"
               /\ UNCHANGED <<meas, cache_records>>
          ELSE IF ex.status # "ok"
          THEN /\ an_exc' = [NoExc EXCEPT !.kind = ex.status, !.bad = ex.bad]
               /\ pc' = "an_raised"
               /\ UNCHANGED <<meas, cache_records>>
          ELSE /\ meas' = ex.meas
               /\ cache_records' =
                     IF cache /\ DurationRecorded(obj[1])
                     THEN Append(cache_records, <<obj[1]["duration"].v, now - start_time>>)
                     ELSE cache_records
               /\ pc' = "an_returned"
               /\ UNCHANGED an_exc
    /\ UNCHANGED <<argVars, start_time, stderr_lines, pass2_filter, result,
                   now, proc, popen_calls, pureVars,
                   last_logged_percent, last_progress_log_time, proc_calls>>

\* line 402: the pass-2 filter from the analysis measurements
BuildFilter ==
    /\ pc = "an_returned"
    /\ pass2_filter' = build_loudnorm_pass2_filter(TargetsOf(cfg), meas[1])
    /\ pc' = "filter_built"
    /\ UNCHANGED <<argVars, anVars, meas, result, envVars, pureVars, logVars>>

\* lines 404 and 411: the filter is injected and the command returned
Inject ==
    /\ pc = "filter_built"
    /\ result' = inject_audio_filter(base_cmd, pass2_filter)
    /\ pc' = "injected"
    /\ UNCHANGED <<argVars, anVars, meas, pass2_filter, envVars, pureVars, logVars>>

\* a variant that lets the failure escape to the caller
CatchException_Propagate ==
    /\ pc = "an_raised"
    /\ pc' = "raised"
    /\ UNCHANGED <<argVars, anVars, orVars, envVars, pureVars, logVars>>

\* a variant that goes on to inject a filter after a failed analysis
CatchException_InjectAnyway ==
    /\ pc = "an_raised"
    /\ pass2_filter' = build_loudnorm_pass2_filter(TargetsOf(cfg), ScenarioMeas)
    /\ pc' = "filter_built"
    /\ UNCHANGED <<argVars, anVars, meas, result, envVars, pureVars, logVars>>

\* lines 416-419: the failure of the analysis is logged and the original
\* command returned
CatchException ==
    /\ pc = "an_raised"
    /\ result' = base_cmd
    /\ pc' = "skipped"
    /\ UNCHANGED <<argVars, anVars, meas, pass2_filter, envVars, pureVars, logVars>>

Next ==
    \/ MaybeApply
    \/ Popen
    \/ Tick
    \/ ProcCloseStderr
    \/ \E code \in {0, 1} : ProcExit(code)
    \/ \E line \in Lines : ReadLine(line)
    \/ ReadEOF_Break
    \/ ReadEOF_Continue
    \/ TerminateExited
    \/ TerminateExpired
    \/ AfterLoop
    \/ BuildFilter
    \/ Inject
    \/ CatchException

Spec == NormInit /\ [][Next]_vars

\* the same call for inputs whose duration is unknown, short or long, with a
\* process that prints statistics lines as the analysis advances
Durations == {NoneF, F(0), F(200000), F(600000)}
Positions == {NoneF, Malformed, F(60000), F(90000), F(120000)}
ProgressLines == {Block(GoodObj)} \cup {TimeMark(p) : p \in Positions}

ProgressInit ==
    /\ base_cmd = <<"ffmpeg", "-i", "in.wav", "-vn", "out.mp3">>
    /\ cfg \in {c \in Configs : c.enabled /\ c.method = "loudnorm" /\ c.use_usdb_defaults}
    /\ stream_copy = FALSE
    /\ precomputed_meas = <<>>
    /\ cache = FALSE
    /\ duration_seconds \in Durations
    /\ pc = "start"
    /\ start_time = 0 /\ stderr_lines = <<>> /\ wall_seconds = 0 /\ an_exc = NoExc
    /\ meas = <<>> /\ pass2_filter = "" /\ result = <<>>
    /\ now = ClockStart /\ proc = NoProc /\ popen_calls = 0 /\ cache_records = <<>>
    /\ last_logged_percent = F(-100000) /\ last_progress_log_time = 0
    /\ proc_calls = <<>> /\ slog = <<>>
    /\ call = NoCall /\ ret = <<>> /\ encoders = {}

ProgressNext ==
    \/ MaybeApply
    \/ Popen
    \/ Tick
    \/ ProcCloseStderr
    \/ \E code \in {0, 1} : ProcExit(code)
    \/ \E line \in ProgressLines : ReadLine(line)
    \/ ReadEOF_Break
    \/ ReadEOF_Continue
    \/ TerminateExited
    \/ TerminateExpired
    \/ AfterLoop
    \/ BuildFilter
    \/ Inject
    \/ CatchException

ProgressSpec == ProgressInit /\ [][ProgressNext]_vars

(***************************************************************************)
(* Pure functions applied to inputs drawn from bounded sets                *)
(***************************************************************************)

\* bounds: tokens of a diagnostic text, tokens of a command to inject into
MaxTextLen == 6
MaxCmdLen == 5

SeqsUpTo(S, n) == UNION {[1..k -> S] : k \in 0..n}

\* an object with some but not all of the required keys
PartialObj ==
    [input_i |-> [t |-> "numstr", v |-> -202000], input_tp |-> [t |-> "numstr", v |-> -31000]]

TextAlphabet == {Junk, LBrace, RBrace, Members(GoodObj), Members(GoodObjDuration),
                 Members(PartialObj)}

\* JSON values of a measurement field; "absent" marks a missing key
FieldValues ==
    {[t |-> "absent", v |-> 0], [t |-> "num", v |-> -202000], [t |-> "numstr", v |-> 38000],
     [t |-> "nan", v |-> 0], [t |-> "str", v |-> 0], [t |-> "bigint", v |-> 0]}
FieldKeySet == {FieldKeys[i] : i \in 1..5}
ObjOf(f) == [key \in {kk \in FieldKeySet : f[kk].t # "absent"} |-> f[key]]

TargetInputs ==
    {LoudnormTargets(i, tp, lra) :
        i \in {F(-160000), F(-235000)}, tp \in {NoneF, F(-15000)}, lra \in {NoneF, F(110000)}}
MeasInputs ==
    {LoudnormMeasurements(i, tp, lra, F(-302000), off) :
        i \in {F(-202000), NaN}, tp \in {F(-31000), F(4)},
        lra \in {F(74000), F(0)}, off \in {F(38000), F(-15)}}

CmdTokens == {"ffmpeg", "-i", "out.mp3"}
FilterStrs == {"replaygain", "loudnorm=I=-16"}

InputPaths == {[stem |-> "in", suffix |-> ".mkv"], [stem |-> "out", suffix |-> ".mp4"]}
VideoOutputPaths == {[stem |-> "out", suffix |-> sfx] : sfx \in {".mp4", ".MOV", ".webm", ".mkv"}}
AudioOutputPaths ==
    {[stem |-> "out", suffix |-> sfx] :
        sfx \in {".mp3", ".ogg", ".m4a", ".M4A", ".mp4", ".opus", ".wav"}}
VideoInfos ==
    {[codec_name |-> "h264", has_audio |-> FALSE, audio_codec |-> ""],
     [codec_name |-> "h264", has_audio |-> TRUE, audio_codec |-> "aac"],
     [codec_name |-> "vp8", has_audio |-> TRUE, audio_codec |-> "opus"],
     [codec_name |-> "h264", has_audio |-> TRUE, audio_codec |-> "flac"],
     [codec_name |-> "HEVC", has_audio |-> TRUE, audio_codec |-> "aac"]}
GeneralCfgs ==
    [max_bitrate_kbps : {0, 5000}, max_resolution : {<<>>, <<1920, 1080>>},
     max_fps : {0, 60}, use_usdb_resolution : BOOLEAN]
\* the accelerator: absent, affirming hardware decoding, or declining it
Accels ==
    {[present |-> FALSE, affirms |-> FALSE],
     [present |-> TRUE, affirms |-> TRUE],
     [present |-> TRUE, affirms |-> FALSE]}
EncoderSets == {{}, {"libsvtav1"}, {"libaom-av1"}, {"libsvtav1", "libaom-av1"}}

VideoArgs(variant) ==
    {[input_path |-> ip, output_path |-> op, video_info |-> vi, cfg |-> gc,
      accel |-> ac, hw_encode_enabled |-> he, hw_decode_enabled |-> hd, encoders |-> en] :
        ip \in InputPaths, op \in VideoOutputPaths, vi \in VideoInfos, gc \in GeneralCfgs,
        ac \in Accels, he \in BOOLEAN, hd \in BOOLEAN,
        en \in IF variant = "av1" THEN EncoderSets ELSE {{}}}

AudioCfgs(variant) ==
    {[mp3_quality |-> mq, vorbis_quality |-> vq, aac_vbr_mode |-> av, opus_bitrate_kbps |-> ob] :
        mq \in IF variant = "mp3" THEN {-1, 0, 9, 10} ELSE {2},
        vq \in IF variant = "vorbis" THEN {F(-15000), F(-10000), F(45000), F(100000), F(100001)}
               ELSE {F(50000)},
        av \in IF variant = "aac" THEN {0, 1, 5, 6} ELSE {4},
        ob \in IF variant = "opus" THEN {5, 6, 510, 511, 600} ELSE {128}}

AudioArgs(variant) ==
    {[input_path |-> ip, output_path |-> op, cfg |-> ac, stream_copy |-> sc] :
        ip \in InputPaths, op \in AudioOutputPaths, ac \in AudioCfgs(variant), sc \in BOOLEAN}

\* stream descriptors as the analyzer reports them (profile "" when absent)
StreamInfos ==
    [codec_name : {"h264", "H264", "avc", "hevc", "h265", "vp8", "VP8", "vp9", "av1", "mpeg4"},
     pixel_format : {"yuv420p", "yuv422p", "yuv420p10le"},
     profile : {"", "high", "High", "main", "baseline", "Constrained Baseline", "high10"}]

\* values handed to _format_num, in 1/10000: 128.0, 100.0, -1.5, 7.4, 0.0,
\* -0.0, -20.25, 0.05, and values that round at the third decimal
FormatInputs ==
    {F(1280000), F(1000000), F(-15000), F(74000), F(0), NegZero, F(-202500), F(500),
     F(-4), F(6), F(12346), F(-9996), F(99999), NaN, Inf}

Call(fn, args) == [fn |-> fn, args |-> args]

PureInit ==
    /\ base_cmd = <<>> /\ cfg = [enabled |-> FALSE] /\ stream_copy = FALSE
    /\ precomputed_meas = <<>> /\ cache = FALSE /\ duration_seconds = NoneF
    /\ pc = "pure"
    /\ start_time = 0 /\ stderr_lines = <<>> /\ wall_seconds = 0 /\ an_exc = NoExc
    /\ meas = <<>> /\ pass2_filter = "" /\ result = <<>>
    /\ now = ClockStart /\ proc = NoProc /\ popen_calls = 0 /\ cache_records = <<>>
    /\ last_logged_percent = F(-100000) /\ last_progress_log_time = 0
    /\ proc_calls = <<>> /\ slog = <<>>
    /\ ret = <<>> /\ encoders = {}
    /\ \/ \E text \in SeqsUpTo(TextAlphabet, MaxTextLen) :
             call = Call("parse_loudnorm_json", <<text>>)
       \/ \E f \in [FieldKeySet -> FieldValues] :
             call = Call("extract_measurements", <<ObjOf(f)>>)
       \/ \E targets \in TargetInputs, m \in MeasInputs :
             call = Call("build_loudnorm_pass2_filter", <<targets, m>>)
       \/ \E cmd \in SeqsUpTo(CmdTokens, MaxCmdLen), f \in FilterStrs :
             call = Call("inject_audio_filter", <<cmd, f>>)
       \/ \E variant \in VideoVariants : \E a \in VideoArgs(variant) :
             call = Call("build_encode_command", <<variant, a>>)
       \/ \E value \in FormatInputs : call = Call("format_num", <<value>>)
       \/ \E variant \in VideoVariants : \E vi \in StreamInfos :
             call = Call("is_compatible", <<variant, vi>>)
       \/ \E variant \in AudioVariants : \E a \in AudioArgs(variant) :
             call = Call("build_encode_command", <<variant, a>>)

Return(value) ==
    /\ ret = <<>>
    /\ ret' = <<value>>
    /\ UNCHANGED <<argVars, pc, anVars, orVars, envVars, call, encoders, logVars>>

Apply_parse_loudnorm_json ==
    /\ call.fn = "parse_loudnorm_json"
    /\ Return(parse_loudnorm_json(call.args[1]))

Apply_extract_measurements ==
    /\ call.fn = "extract_measurements"
    /\ Return(extract_measurements(call.args[1]))

Apply_build_loudnorm_pass2_filter ==
    /\ call.fn = "build_loudnorm_pass2_filter"
    /\ Return(build_loudnorm_pass2_filter(call.args[1], call.args[2]))

Apply_inject_audio_filter ==
    /\ call.fn = "inject_audio_filter"
    /\ Return(inject_audio_filter(call.args[1], call.args[2]))

Apply_build_encode_command ==
    /\ call.fn = "build_encode_command"
    /\ Return(build_encode_command(call.args[1], call.args[2]))

Apply_is_compatible ==
    /\ call.fn = "is_compatible"
    /\ Return(is_compatible(call.args[1], call.args[2]))

Apply_format_num ==
    /\ call.fn = "format_num"
    /\ Return(format_num(call.args[1]))

PureNext ==
    \/ Apply_format_num
    \/ Apply_is_compatible
    \/ Apply_parse_loudnorm_json
    \/ Apply_extract_measurements
    \/ Apply_build_loudnorm_pass2_filter
    \/ Apply_inject_audio_filter
    \/ Apply_build_encode_command

PureSpec == PureInit /\ [][PureNext]_vars

(***************************************************************************)
(* Repeated calls of one builder with the same arguments, while the        *)
(* installed ffmpeg (what the availability probe reports) may change       *)
(***************************************************************************)

MaxCalls == 2

\* a family of arguments of every variant; the probe's answers are not an
\* argument, they are read from the environment at each call
BuildArgs(variant) ==
    IF variant \in AudioVariants
    THEN {a \in AudioArgs(variant) : a.input_path.stem = "in" /\ a.output_path.suffix # ".M4A"}
    ELSE {a \in VideoArgs(variant) :
            /\ a.encoders = {} /\ a.input_path.stem = "in"
            /\ a.output_path.suffix \in {".mp4", ".mkv"}
            /\ a.video_info.has_audio /\ a.video_info.audio_codec # "flac"
            /\ a.cfg.max_fps = 0 /\ a.cfg.max_bitrate_kbps = 0
            /\ a.cfg.use_usdb_resolution
            /\ (a.accel.present => a.accel.affirms)}

\* the arguments as the builder sees them together with the probe's answers
WithProbe(variant, a) ==
    IF variant \in AudioVariants THEN a ELSE [a EXCEPT !.encoders = encoders]

BuildInit ==
    /\ base_cmd = <<>> /\ cfg = [enabled |-> FALSE] /\ stream_copy = FALSE
    /\ precomputed_meas = <<>> /\ cache = FALSE /\ duration_seconds = NoneF
    /\ pc = "build"
    /\ start_time = 0 /\ stderr_lines = <<>> /\ wall_seconds = 0 /\ an_exc = NoExc
    /\ meas = <<>> /\ pass2_filter = "" /\ result = <<>>
    /\ now = ClockStart /\ proc = NoProc /\ popen_calls = 0 /\ cache_records = <<>>
    /\ last_logged_percent = F(-100000) /\ last_progress_log_time = 0
    /\ proc_calls = <<>> /\ slog = <<>>
    /\ ret = <<>>
    /\ encoders \in EncoderSets
    /\ \E variant \in VideoVariants \cup AudioVariants : \E a \in BuildArgs(variant) :
          call = Call("build_encode_command", <<variant, a>>)

\* one more call with the same arguments; the entry keeps what the probe
\* answered during the call
BuildCall ==
    /\ Len(ret) < MaxCalls
    /\ ret' = Append(ret,
                [out |-> build_encode_command(call.args[1],
                                              WithProbe(call.args[1], call.args[2])),
                 probe |-> encoders])
    /\ UNCHANGED <<argVars, pc, anVars, orVars, envVars, call, encoders, logVars>>

\* between two calls the installed ffmpeg gains or loses an encoder
EncodersChange ==
    /\ Len(ret) < MaxCalls
    /\ \E e \in EncoderSets : e # encoders /\ encoders' = e
    /\ UNCHANGED <<argVars, pc, anVars, orVars, envVars, call, ret, logVars>>

BuildNext == BuildCall \/ EncodersChange

BuildSpec == BuildInit /\ [][BuildNext]_vars

\* the read loop runs whenever it can (readline returns as soon as the stream
\* is at its end, wait(timeout=5) returns within its bound) and the clock
\* advances; the external process is under no obligation to emit or to exit
ReadLoopStep ==
    \/ Popen \/ ReadEOF_Break \/ ReadEOF_Continue
    \/ TerminateExited \/ TerminateExpired

FairSpec == NormInit /\ [][Next]_vars /\ WF_vars(ReadLoopStep) /\ WF_vars(Tick)

(***************************************************************************)
(* Properties                                                              *)
(***************************************************************************)

ReturnedFrom(fn) == call.fn = fn /\ ret # <<>>

\* the orchestration policy skips normalization before anything is run
PolicySkip ==
    ~cfg.enabled \/ stream_copy \/ cfg.method \notin {"loudnorm", "replaygain"}

\* C1: maybe_apply_audio_normalization never raises and returns the original
\* command, token for token, when normalization is disabled, stream copy is
\* requested, the method is unknown, or the analysis raised (spawn failure,
\* non-zero exit, timeout, parse failure, invalid measurements).
C1_SkipReturnsOriginal ==
    /\ pc # "raised"
    /\ (PolicySkip /\ pc # "start") => pc = "skipped"
    /\ an_exc.kind # "none" => pc \in {"an_raised", "skipped"}
    /\ pc = "skipped" => result = base_cmd
    /\ pc = "an_raised" => ENABLED CatchException

C1_Witness ==
    /\ pc = "skipped" /\ an_exc.kind = "exit" /\ an_exc.code = 1
    /\ result = base_cmd /\ Len(base_cmd) >= 2

\* the states of the two-pass protocol, read off the control position
Proto(p) ==
    CASE p = "start" -> "Idle"
      [] p \in {"popen", "readline", "wait5", "after_loop"} -> "AnalysisRunning"
      [] p = "an_returned" -> "AnalysisComplete"
      [] p = "an_raised" -> "AnalysisFailed"
      [] p = "filter_built" -> "FilterBuilt"
      [] p = "injected" -> "Injected"
      [] p = "skipped" -> "Skipped"
      [] OTHER -> "Raised"

StatedEdges ==
    {<<"Idle", "AnalysisRunning">>, <<"AnalysisRunning", "AnalysisComplete">>,
     <<"AnalysisComplete", "FilterBuilt">>, <<"FilterBuilt", "Injected">>,
     <<"AnalysisRunning", "AnalysisFailed">>, <<"AnalysisFailed", "Skipped">>,
     <<"Idle", "Skipped">>}

\* a loudnorm filter is built only with measurements at hand and no failure
FilterHasMeasurements ==
    (pc' = "filter_built" /\ cfg.method = "loudnorm")
        => (meas' # <<>> /\ an_exc'.kind = "none")

\* nothing happens after Injected or Skipped
TerminalStays ==
    pc \in {"injected", "skipped"} => UNCHANGED <<pc, result, proc, popen_calls>>

\* C2 as stated: the protocol moves only along the stated edges (Idle ->
\* AnalysisRunning -> AnalysisComplete -> FilterBuilt -> Injected,
\* AnalysisRunning -> AnalysisFailed -> Skipped, Idle -> Skipped), a loudnorm
\* filter is built only with valid measurements, Injected and Skipped are final.
C2_OnlyStatedEdges ==
    [][/\ Proto(pc') # Proto(pc) => <<Proto(pc), Proto(pc')>> \in StatedEdges
       /\ FilterHasMeasurements
       /\ TerminalStays]_vars

\* C2 amended: as stated, with the further edge Idle -> FilterBuilt, taken
\* exactly when no analysis is needed: precomputed measurements were supplied
\* to a loudnorm run, or the method is replaygain.
C2_EdgesWithShortcut ==
    [][/\ Proto(pc') # Proto(pc) =>
            \/ <<Proto(pc), Proto(pc')>> \in StatedEdges
            \/ /\ <<Proto(pc), Proto(pc')>> = <<"Idle", "FilterBuilt">>
               /\ \/ cfg.method = "replaygain"
                  \/ cfg.method = "loudnorm" /\ precomputed_meas # <<>>
       /\ (Proto(pc) = "Idle" /\ Proto(pc') = "AnalysisRunning")
            => (cfg.method = "loudnorm" /\ precomputed_meas = <<>>)
       /\ FilterHasMeasurements
       /\ TerminalStays]_vars

C2_Witness ==
    /\ pc = "filter_built" /\ cfg.method = "loudnorm"
    /\ precomputed_meas # <<>> /\ meas = precomputed_meas /\ popen_calls = 0

\* C3: every analysis finishes: once the elapsed time exceeds the timeout the
\* read loop does not stay in readline forever, even when the process stops
\* emitting without exiting or closes its diagnostic stream and keeps running.
C3_TimeoutStillFires ==
    (pc = "readline" /\ now - start_time > AnalysisTimeout(cfg)) ~> (pc # "readline")

\* s is text without its leading and trailing whitespace
IsStripOf(s, text) ==
    \E i \in 1..(Len(text) + 1) : \E j \in 0..Len(text) :
        /\ s = SubSeq(text, i, j)
        /\ \A q \in 1..Len(text) : (q < i \/ q > j) => text[q].k = "nl"
        /\ s # <<>> => (s[1].k # "nl" /\ s[Len(s)].k # "nl")

\* tail holds exactly the last Min(n, len(s)) characters of s
IsLastChars(tail, s, n) ==
    /\ TextLen(tail.toks) - tail.cut = Min(n, TextLen(s))
    /\ Len(tail.toks) <= Len(s)
    /\ tail.toks = SubSeq(s, Len(s) - Len(tail.toks) + 1, Len(s))
    /\ tail.cut >= 0
    /\ tail.toks # <<>> => tail.cut < TokLen(tail.toks[1])
    /\ tail.toks = <<>> => tail.cut = 0

\* C4: a non-zero exit code without a timeout raises a failure carrying the
\* exit code and exactly the last (at most) 1000 characters of the stripped
\* captured text; no measurements are returned and the cache is not recorded.
C4_ExitCodeFailure ==
    /\ (proc.state = "exited" /\ proc.returncode = 1
            /\ pc \notin {"readline", "after_loop"})
         => an_exc.kind = "exit"
    /\ an_exc.kind = "exit" =>
        /\ an_exc.code = proc.returncode /\ an_exc.code # 0
        /\ \E s \in {strip(JoinLines(stderr_lines))} :
              /\ IsStripOf(s, JoinLines(stderr_lines))
              /\ IsLastChars(an_exc.tail, s, 1000)
        /\ meas = <<>> /\ cache_records = <<>>
        /\ pc \in {"an_raised", "skipped"}

C4_Witness ==
    /\ an_exc.kind = "exit" /\ pc = "an_raised"
    /\ TextLen(strip(JoinLines(stderr_lines))) > 1000
    /\ an_exc.tail.cut > 0

\* positions where a qualifying structured block (a JSON object with the four
\* required keys) starts in a text
QualifyingAt(text) ==
    {i \in 1..(Len(text) - 2) :
        /\ text[i].k = "{" /\ text[i + 1].k = "m" /\ text[i + 2].k = "}"
        /\ RequiredKeys \subseteq DOMAIN text[i + 1].o}

SetMax(S) == CHOOSE x \in S : \A y \in S : y <= x

\* C5: _parse_loudnorm_json returns the last structured block of the text whose
\* keys include the four required fields, whatever precedes it, and fails if
\* and only if the text holds no such block.
C5_LastQualifyingBlock ==
    ReturnedFrom("parse_loudnorm_json") =>
        LET text == call.args[1]
            Q == QualifyingAt(text)
        IN IF Q = {} THEN ret[1] = <<>>
           ELSE ret[1] = <<text[SetMax(Q) + 1].o>>

\* a field value that is present, numeric (a number or a numeric string) and finite
ValidField(obj, key) ==
    key \in DOMAIN obj /\ obj[key].t \in {"num", "numstr", "bigint"}

\* C6: _extract_measurements succeeds iff all five fields are present, numeric
\* and finite; otherwise it raises one failure naming exactly the invalid
\* fields; measurements it returns have five finite fields.
C6_ExtractValidates ==
    ReturnedFrom("extract_measurements") =>
        LET obj == call.args[1]
            r == ret[1]
            invalid == SelectSeq(<<1, 2, 3, 4, 5>>, LAMBDA i : ~ValidField(obj, FieldKeys[i]))
        IN /\ r.status = "ok" <=> invalid = <<>>
           /\ r.status # "ok" =>
                /\ r.status = "ValueError"
                /\ r.bad = [j \in 1..Len(invalid) |-> FieldNames[invalid[j]]]
                /\ r.meas = <<>>
           /\ r.status = "ok" =>
                \A f \in {"measured_I", "measured_TP", "measured_LRA",
                          "measured_thresh", "offset"} : r.meas[1][f].t = "fin"

\* ":".join(parts)
RECURSIVE JoinColon(_)
JoinColon(parts) ==
    IF Len(parts) = 1 THEN parts[1] ELSE parts[1] \o ":" \o JoinColon(Tail(parts))

\* C7: the pass-2 filter is 'loudnorm=I=<target>', then 'TP=<tp>' only if a
\* true-peak target is given, then 'LRA=<lra>' only if a loudness-range target
\* is given, then measured_I, measured_TP, measured_LRA, measured_thresh and
\* offset, colon-separated; targets I=-16.0 without TP/LRA and measurements
\* (-20.2, -3.1, 7.4, -30.2, 3.8) give the scenario string.
C7_Pass2FilterFormat ==
    ReturnedFrom("build_loudnorm_pass2_filter") =>
        LET t == call.args[1]
            m == call.args[2]
            parts == <<"loudnorm=I=" \o format_num(t.integrated_lufs)>>
                     \o (IF t.true_peak_dbtp = NoneF THEN <<>>
                         ELSE <<"TP=" \o format_num(t.true_peak_dbtp)>>)
                     \o (IF t.lra_lu = NoneF THEN <<>>
                         ELSE <<"LRA=" \o format_num(t.lra_lu)>>)
                     \o <<"measured_I=" \o format_num(m.measured_I),
                          "measured_TP=" \o format_num(m.measured_TP),
                          "measured_LRA=" \o format_num(m.measured_LRA),
                          "measured_thresh=" \o format_num(m.measured_thresh),
                          "offset=" \o format_num(m.offset)>>
        IN /\ ret[1] = JoinColon(parts)
           /\ (t = LoudnormTargets(F(-160000), NoneF, NoneF) /\ m = ScenarioMeas)
                => ret[1] = "loudnorm=" \o "I=-16:measured_I=-20.2:measured_TP=-3.1:"
                            \o "measured_LRA=7.4:measured_thresh=-30.2:offset=3.8"

C7_Witness ==
    /\ ReturnedFrom("build_loudnorm_pass2_filter")
    /\ call.args[1] = LoudnormTargets(F(-160000), NoneF, NoneF)
    /\ call.args[2] = ScenarioMeas

\* C8: for a command of n >= 2 tokens inject_audio_filter returns n + 2 tokens:
\* the first n - 1 unchanged, then the filter flag and the filter string, then
\* the original final token; a command of fewer than 2 tokens comes back
\* unchanged.  (Positions n-1 and n of the claim count from 0.)
C8_InjectBeforeOutput ==
    ReturnedFrom("inject_audio_filter") =>
        LET cmd == call.args[1]
            n == Len(cmd)
            r == ret[1]
        IN IF n < 2 THEN r = cmd
           ELSE /\ Len(r) = n + 2
                /\ \A i \in 1..(n - 1) : r[i] = cmd[i]
                /\ r[n] = "-af"
                /\ r[n + 1] = call.args[2]
                /\ r[n + 2] = cmd[n]

C8_Witness ==
    /\ ReturnedFrom("inject_audio_filter")
    /\ Len(call.args[1]) = 5 /\ Len(ret[1]) = 7
    /\ ret[1][5] = "-af" /\ ret[1][7] = call.args[1][5]

\* C9: with precomputed measurements and the loudnorm method, pass 1 is
\* skipped: no process is spawned, the cache is not touched, and the filter
\* injected is the pass-2 filter of the configured targets and the supplied
\* measurements.
C9_PrecomputedSkipsPass1 ==
    (~PolicySkip /\ cfg.method = "loudnorm" /\ precomputed_meas # <<>>) =>
        /\ popen_calls = 0 /\ proc.state = "none" /\ cache_records = <<>>
        /\ pc \in {"start", "filter_built", "injected"}
        /\ pc = "injected" =>
            IF Len(base_cmd) < 2 THEN result = base_cmd
            ELSE /\ result[Len(base_cmd)] = "-af"
                 /\ result[Len(base_cmd) + 1] =
                        build_loudnorm_pass2_filter(TargetsOf(cfg), precomputed_meas[1])

C9_Witness ==
    /\ ~PolicySkip /\ cfg.method = "loudnorm" /\ precomputed_meas # <<>>
    /\ pc = "injected" /\ Len(base_cmd) >= 2 /\ Len(result) = Len(base_cmd) + 2

\* the flags of encoder, filter, audio and container options
OutputOptionFlags ==
    {"-preset", "-profile:v", "-crf", "-global_quality", "-look_ahead", "-pix_fmt",
     "-rc_mode", "-tag:v", "-b:v", "-cpu-used", "-deadline", "-auto-alt-ref",
     "-lag-in-frames", "-row-mt", "-tile-columns", "-g", "-vsync", "-maxrate",
     "-bufsize", "-vf", "-af", "-c:a", "-b:a", "-an", "-map", "-vn", "-sn", "-dn",
     "-q:a", "-vbr", "-movflags"}

IsAudioCall == ReturnedFrom("build_encode_command") /\ call.args[1] \in AudioVariants

\* the variant's numeric parameter lies outside its range
ParamOutOfRange(variant, c) ==
    CASE variant = "mp3" -> c.mp3_quality < 0 \/ c.mp3_quality > 9
      [] variant = "vorbis" -> c.vorbis_quality.v < -10000 \/ c.vorbis_quality.v > 100000
      [] variant = "aac" -> c.aac_vbr_mode < 1 \/ c.aac_vbr_mode > 5
      [] variant = "opus" -> c.opus_bitrate_kbps < 6 \/ c.opus_bitrate_kbps > 510

\* the output suffixes a variant accepts, in either letter case
AcceptedSuffixes(variant) ==
    CASE variant = "mp3" -> {".mp3", ".MP3"}
      [] variant = "vorbis" -> {".ogg", ".OGG"}
      [] variant = "aac" -> {".m4a", ".M4A", ".mp4", ".MP4"}
      [] variant = "opus" -> {".opus", ".OPUS"}

\* C11: an audio-only builder raises a configuration error and returns no
\* command exactly when its numeric parameter is out of range (MP3 quality
\* [0,9], Vorbis quality [-1.0,10.0], AAC VBR mode [1,5], Opus bitrate [6,510])
\* or the output extension is not accepted, with or without stream copy;
\* boundary values are accepted.
C11_AudioConfigValidated ==
    IsAudioCall =>
        LET variant == call.args[1]
            a == call.args[2]
            bad == \/ ParamOutOfRange(variant, a.cfg)
                   \/ a.output_path.suffix \notin AcceptedSuffixes(variant)
        IN IF bad THEN ret[1].status = "ValueError" /\ ret[1].cmd = <<>>
           ELSE ret[1].status = "ok" /\ ret[1].cmd # <<>>

C11_Witness ==
    /\ IsAudioCall /\ call.args[1] = "opus"
    /\ call.args[2].cfg.opus_bitrate_kbps = 600
    /\ call.args[2].output_path.suffix = ".opus" /\ call.args[2].stream_copy
    /\ ret[1].status = "ValueError" /\ ret[1].cmd = <<>>

\* C12: two calls of a builder with identical arguments return
\* identical token sequences, whatever happened in between and whatever the
\* state outside the arguments, the AV1 encoder availability probe included.
C12_SameArgsSameCommand ==
    pc = "build" =>
        \A i, j \in 1..Len(ret) : ret[i].out = ret[j].out

VideoFlags == {"-c:v", "-codec:v", "-vcodec", "0:v", "0:v:0", "0:v:0?", "-vf", "-pix_fmt"}

\* C14: every command of an audio-only builder, with stream copy or with
\* transcoding, carries -vn, -sn and -dn and the optional selection of the
\* first audio stream (-map 0:a:0?), and no flag that selects a video stream or
\* a video codec.
C14_AudioOnlyFlags ==
    (IsAudioCall /\ ret[1].status = "ok") =>
        LET cmd == ret[1].cmd
            toks == {cmd[p] : p \in 1..Len(cmd)}
        IN /\ {"-vn", "-sn", "-dn"} \subseteq toks
           /\ \E p \in 1..(Len(cmd) - 1) : cmd[p] = "-map" /\ cmd[p + 1] = "0:a:0?"
           /\ \A p \in 1..(Len(cmd) - 1) : cmd[p] = "-map" => cmd[p + 1] = "0:a:0?"
           /\ toks \cap VideoFlags = {}

C14_Witness ==
    /\ IsAudioCall /\ ret[1].status = "ok" /\ call.args[1] = "vorbis"
    /\ call.args[2].stream_copy
    /\ \E p \in 1..Len(ret[1].cmd) : ret[1].cmd[p] = "copy"

\* the digits of a fraction of thousandths without its trailing zeros
FractionDigits(fp) ==
    IF fp % 100 = 0 THEN Digit(fp \div 100)
    ELSE IF fp % 10 = 0 THEN Digit(fp \div 100) \o Digit((fp \div 10) % 10)
    ELSE Digit(fp \div 100) \o Digit((fp \div 10) % 10) \o Digit(fp % 10)

\* a finite value rounded to thousandths: the sign, all integer digits, and a
\* point with the fraction digits only when the fraction is not zero
ThreeDecimalsStripped(x) ==
    LET mag == IF x.v < 0 THEN -x.v ELSE x.v
        milli == IF mag % 10 > 5 THEN mag \div 10 + 1 ELSE mag \div 10
    IN (IF x.v < 0 THEN "-" ELSE "")
       \o Join(Digits(milli \div 1000))
       \o (IF milli % 1000 = 0 THEN "" ELSE "." \o FractionDigits(milli % 1000))

\* C15: _format_num renders a finite value as its 3-decimal representation
\* without trailing zeros and without a trailing point, all integer digits
\* kept (128.0 -> '128', -1.5 -> '-1.5', 100.0 -> '100'), and values that are
\* equal render to the same string.
C15_FormatNumStable ==
    (ReturnedFrom("format_num") /\ isfinite(call.args[1])) =>
        LET x == call.args[1]
        IN /\ x # NegZero => ret[1] = ThreeDecimalsStripped(x)
           /\ x = F(1280000) => ret[1] = "128"
           /\ x = F(-15000) => ret[1] = "-1.5"
           /\ x = F(1000000) => ret[1] = "100"
           /\ \A y \in FormatInputs :
                (isfinite(y) /\ y.v = x.v) => format_num(y) = ret[1]

\* C16: whenever a diagnostic line is received with the elapsed time above
\* timeout_seconds, the process is asked to terminate, then waited on for up
\* to 5 seconds, then killed only if it outlived that wait, and the timeout
\* failure is raised only once the process is dead; such a run returns no
\* measurements and fails as a timeout, not as a non-zero exit.
C16_TimeoutOrder ==
    /\ [](/\ pc = "wait5" => (proc_calls = <<"terminate">> /\ an_exc = NoExc)
          /\ (proc_calls # <<>> /\ pc # "wait5") =>
                /\ an_exc.kind = "timeout"
                /\ proc.state = "exited"
                /\ meas = <<>>
                /\ pc \in {"an_raised", "skipped"}
                /\ \/ proc_calls = <<"terminate", "wait5">> /\ proc.returncode # -9
                   \/ proc_calls = <<"terminate", "wait5", "kill", "wait">>
                        /\ proc.returncode = -9
          /\ an_exc.kind = "timeout" => proc_calls # <<>>)
    /\ [][/\ (pc = "readline" /\ stderr_lines' # stderr_lines) =>
               ((now - start_time > AnalysisTimeout(cfg)) <=> (pc' = "wait5"))
          /\ proc_calls' # proc_calls =>
               \/ pc = "readline" /\ stderr_lines' # stderr_lines
                    /\ now - start_time > AnalysisTimeout(cfg)
               \/ pc = "wait5" /\ proc.state = "running"]_vars

C16_Witness ==
    /\ pc = "skipped"
    /\ an_exc.kind = "timeout"
    /\ proc_calls = <<"terminate", "wait5", "kill", "wait">>
    /\ result = base_cmd

\* the progress notifications among the messages logged so far
RECURSIVE ProgressNotes(_)
ProgressNotes(log) ==
    IF log = <<>> THEN <<>>
    ELSE IF log[1].kind = "progress" THEN <<log[1]>> \o ProgressNotes(Tail(log))
    ELSE ProgressNotes(Tail(log))

\* the position a received line reports, NoneF when it reports none
PositionOf(line) ==
    IF \E i \in 1..Len(line) : line[i].k = "time" /\ line[i].o.time.t = "fin"
    THEN (line[CHOOSE i \in 1..Len(line) : line[i].k = "time"]).o.time
    ELSE NoneF

\* the notification the claim asks for on a line reporting position `pos`,
\* given the notifications made before it
NotificationDue(pos, notes, clock) ==
    LET percent == (pos.v * 1000) \div (duration_seconds.v \div 1000)
    IN IF notes = <<>> THEN TRUE
       ELSE LET last == notes[Len(notes)]
            IN \/ percent \div 100000 > last.percent.v \div 100000
               \/ clock - last.at >= 6 /\ percent > last.percent.v

\* C17: progress notifications are emitted only when the duration is known
\* and above 30 seconds; then a received line carrying a position is notified
\* if and only if its percent entered a higher 10% bucket than the last
\* notification's, or 6 seconds or more have passed since the last
\* notification and the percent is above the last notified percent.
C17_ProgressNotifications ==
    [][(pc = "readline" /\ stderr_lines' # stderr_lines) =>
          LET line == stderr_lines'[Len(stderr_lines')]
              pos == PositionOf(line)
              notes == ProgressNotes(slog)
              known == duration_seconds # NoneF /\ duration_seconds.v > 30 * 10000
          IN /\ ProgressNotes(slog') # notes => known
             /\ IF known /\ pos # NoneF /\ NotificationDue(pos, notes, now)
                THEN /\ Len(slog') = Len(slog) + 1
                     /\ slog'[Len(slog')].kind = "progress"
                     /\ slog'[Len(slog')].at = now
                     /\ slog'[Len(slog')].percent.v
                          = (pos.v * 1000) \div (duration_seconds.v \div 1000)
                ELSE slog' = slog]_vars

\* two notifications in one bucket, the second one for the elapsed 6 seconds
C17_Witness ==
    /\ Len(ProgressNotes(slog)) = 2
    /\ slog[1].percent.v \div 100000 = slog[2].percent.v \div 100000
    /\ slog[2].at - slog[1].at >= 6
    /\ Len(stderr_lines) = 2

\* the completion summaries among the messages logged so far
RECURSIVE CompletionNotes(_)
CompletionNotes(log) ==
    IF log = <<>> THEN <<>>
    ELSE IF log[1].kind = "completed" THEN <<log[1]>> \o CompletionNotes(Tail(log))
    ELSE CompletionNotes(Tail(log))

\* the analysis ran and returned measurements
AnalysisSucceeded ==
    popen_calls > 0 /\ pc \in {"an_returned", "filter_built", "injected"}

\* C18: after a successful analysis of an input whose duration is at most 30
\* seconds or was not supplied, no progress notification and exactly one
\* completion summary has been emitted.
C18_CompletionNeverSilent ==
    (AnalysisSucceeded
       /\ (duration_seconds = NoneF \/ duration_seconds.v <= 30 * 10000)) =>
        /\ ProgressNotes(slog) = <<>>
        /\ Len(CompletionNotes(slog)) = 1

StaticDecoderLookup ==
    {<<"h264", "h264_qsv">>, <<"hevc", "hevc_qsv">>, <<"h265", "hevc_qsv">>,
     <<"vp9", "vp9_qsv">>, <<"mpeg2video", "mpeg2_qsv">>, <<"vc1", "vc1_qsv">>,
     <<"av1", "av1_qsv">>, <<"mjpeg", "mjpeg_qsv">>}

\* the positions of a codec selection ahead of the input flag
DecoderSelections(cmd) ==
    {i \in 1..(Len(cmd) - 1) :
        /\ cmd[i] = "-c:v"
        /\ \E k \in (i + 2)..Len(cmd) : cmd[k] = "-i"}

VideoBuilt ==
    /\ ReturnedFrom("build_encode_command")
    /\ call.args[1] \in VideoVariants
    /\ ret[1].status = "ok"

\* the scale filter the claim asks for, for the bounds 1920x1080
ClaimedScale(cfgc) ==
    IF cfgc.max_resolution = <<>> THEN <<>>
    ELSE IF cfgc.use_usdb_resolution
    THEN <<"scale='min(iw,1920)':'min(ih,1080)':force_original_aspect_ratio=decrease">>
    ELSE <<"scale=1920:1080:force_original_aspect_ratio=decrease,pad=1920:1080:(ow-iw)/2:(oh-ih)/2">>

\* the frame-rate filter the claim asks for, for 60 frames per second
ClaimedFps(cfgc) == IF cfgc.max_fps = 0 THEN <<>> ELSE <<"fps=fps=60">>

\* C21: in every video variant's command a configured max resolution gives a
\* scale filter, the fit form when the source-resolution-preserving flag is
\* set and the letterbox-padding form otherwise, a configured max frame rate
\* a frame-rate filter after it, all in one comma-joined -vf argument, and
\* there is no -vf flag when neither cap is configured.
C21_VideoFilters ==
    VideoBuilt =>
        LET cfgc == call.args[2].cfg
            cmd == ret[1].cmd
            filters == ClaimedScale(cfgc) \o ClaimedFps(cfgc)
            at == {i \in 1..Len(cmd) : cmd[i] = "-vf"}
        IN IF filters = <<>> THEN at = {}
           ELSE /\ Cardinality(at) = 1
                /\ \A i \in at :
                     /\ i < Len(cmd)
                     /\ cmd[i + 1] = (IF Len(filters) = 1 THEN filters[1]
                                      ELSE filters[1] \o "," \o filters[2])

\* the audio decision the claim asks for in a container family
ClaimedAudio(family, video_info) ==
    IF ~video_info.has_audio THEN <<"-an">>
    ELSE IF family = "mp4"
    THEN IF video_info.audio_codec \in {"aac", "mp3", "alac"}
         THEN <<"-c:a", "copy">> ELSE <<"-c:a", "aac", "-b:a", "192k">>
    ELSE IF video_info.audio_codec \in {"opus", "vorbis"}
         THEN <<"-c:a", "copy">> ELSE <<"-c:a", "libopus", "-b:a", "160k">>

\* the container family of an output path, by its extension
OutputFamily(output_path) ==
    IF output_path.suffix \in {".mp4", ".MP4", ".mov", ".MOV"} THEN "mp4" ELSE "webm"

\* the container family a variant writes its audio for
VariantFamily(variant, output_path) ==
    CASE variant \in {"h264", "hevc"} -> "mp4"
      [] variant \in {"vp8", "vp9"} -> "webm"
      [] OTHER -> OutputFamily(output_path)

\* the command holds exactly the audio decision `audio`, and never the
\* disable-audio flag next to an audio codec selection
HasOneAudioDecision(cmd, audio) ==
    LET an == {i \in 1..Len(cmd) : cmd[i] = "-an"}
        ca == {i \in 1..Len(cmd) : cmd[i] = "-c:a"}
    IN /\ Cardinality(an) + Cardinality(ca) = 1
       /\ \A i \in an \cup ca :
            /\ i + Len(audio) - 1 <= Len(cmd)
            /\ SubSeq(cmd, i, i + Len(audio) - 1) = audio
       /\ (audio = <<"-c:a", "copy">>) => \A i \in 1..Len(cmd) : cmd[i] # "-b:a"

\* C22: every video command holds exactly one audio decision: audio disabled
\* for a source without audio, stream copy when the source's audio codec is
\* native to the family of the output container (aac/mp3/alac for MP4-family
\* outputs, opus/vorbis for WebM/MKV-family outputs), else the family's
\* fallback (aac 192k, libopus 160k); never -an with an audio codec.
C22_AudioByOutputFamily ==
    VideoBuilt =>
        HasOneAudioDecision(ret[1].cmd,
            ClaimedAudio(OutputFamily(call.args[2].output_path), call.args[2].video_info))

\* C22 amended: as stated, with the container family taken from the variant
\* (MP4-family for H264 and HEVC, WebM/MKV-family for VP8 and VP9, whatever
\* the output extension) and from the output extension for AV1 only.
C22_AudioByVariantFamily ==
    VideoBuilt =>
        HasOneAudioDecision(ret[1].cmd,
            ClaimedAudio(VariantFamily(call.args[1], call.args[2].output_path),
                         call.args[2].video_info))

C22_Witness ==
    /\ VideoBuilt /\ call.args[1] = "h264"
    /\ call.args[2].output_path.suffix = ".mkv"
    /\ call.args[2].video_info.audio_codec = "flac"
    /\ \E i \in 1..(Len(ret[1].cmd) - 3) :
          SubSeq(ret[1].cmd, i, i + 3) = <<"-c:a", "aac", "-b:a", "192k">>

\* a command was built, by a video or an audio variant
CommandBuilt == ReturnedFrom("build_encode_command") /\ ret[1].status = "ok"

\* the extensions of the MP4 family, for video and for audio outputs
Mp4FamilyOutput(variant, output_path) ==
    IF variant \in VideoVariants
    THEN output_path.suffix \in {".mp4", ".MP4", ".mov", ".MOV"}
    ELSE output_path.suffix \in {".m4a", ".M4A", ".mp4", ".MP4"}

\* the fast-start flag sits once in the command, after the audio options and
\* directly before the output path
FastStartBeforeOutput(cmd, output_path) ==
    LET n == Len(cmd)
    IN /\ n >= 3
       /\ cmd[n] = PathStr(output_path)
       /\ cmd[n - 2] = "-movflags" /\ cmd[n - 1] = "+faststart"
       /\ \A i \in 1..n : cmd[i] = "-movflags" => i = n - 2
       /\ \A i \in 1..n : cmd[i] \in {"-c:a", "-an", "-b:a", "-vbr", "-q:a"} => i < n - 2

NoFastStart(cmd) == \A i \in 1..Len(cmd) : cmd[i] \notin {"-movflags", "+faststart"}

\* C23: every command, of a video or an audio variant, carries the fast-start
\* flag with its value, after the audio options and directly before the
\* output path, if and only if the output extension is in the MP4 family
\* (.mp4/.mov for video, .m4a/.mp4 for audio).
C23_FastStartByExtension ==
    CommandBuilt =>
        LET a == call.args[2]
            cmd == ret[1].cmd
        IN IF Mp4FamilyOutput(call.args[1], a.output_path)
           THEN FastStartBeforeOutput(cmd, a.output_path)
           ELSE NoFastStart(cmd)

\* C23 amended: as stated for the H264, HEVC and AV1 variants and for the audio
\* variants; the VP8 and VP9 variants never carry the fast-start flag,
\* whatever the output extension.
C23_FastStartExceptVpx ==
    CommandBuilt =>
        LET a == call.args[2]
            cmd == ret[1].cmd
        IN IF call.args[1] \notin {"vp8", "vp9"}
              /\ Mp4FamilyOutput(call.args[1], a.output_path)
           THEN FastStartBeforeOutput(cmd, a.output_path)
           ELSE NoFastStart(cmd)

C23_Witness ==
    /\ CommandBuilt /\ call.args[1] = "hevc"
    /\ call.args[2].output_path.suffix = ".MOV"
    /\ call.args[2].video_info.has_audio
    /\ FastStartBeforeOutput(ret[1].cmd, call.args[2].output_path)

\* analyze_loudnorm_two_pass has ended, by returning or by raising
AnalysisEnded ==
    popen_calls > 0 /\ pc \in {"an_returned", "an_raised", "filter_built", "injected", "skipped"}

\* C24: whenever analyze_loudnorm_two_pass has ended, by returning
\* measurements or by raising any failure, the process it spawned has exited;
\* no analysis process is left running.
C24_NoProcessLeftRunning ==
    AnalysisEnded => proc.state # "running"

\* the percents of a sequence of notifications increase strictly
StrictlyIncreasing(notes) ==
    \A i \in 1..(Len(notes) - 1) : notes[i].percent.v < notes[i + 1].percent.v

\* C25: within one analysis run the percents of successive progress
\* notifications increase strictly: a line whose percent is not above the
\* last notified percent produces no notification, however much time has
\* passed, and the last notified percent never decreases.
C25_PercentStrictlyIncreasing ==
    /\ [](/\ StrictlyIncreasing(ProgressNotes(slog))
          /\ ProgressNotes(slog) # <<>> =>
                last_logged_percent = ProgressNotes(slog)[Len(ProgressNotes(slog))].percent)
    /\ [][/\ last_logged_percent'.v >= last_logged_percent.v
          /\ (pc = "readline" /\ stderr_lines' # stderr_lines
                /\ ProgressNotes(slog) # <<>>
                /\ PositionOf(stderr_lines'[Len(stderr_lines')]) # NoneF
                /\ duration_seconds # NoneF /\ duration_seconds.v > 0
                /\ (PositionOf(stderr_lines'[Len(stderr_lines')]).v * 1000)
                      \div (duration_seconds.v \div 1000)
                   <= ProgressNotes(slog)[Len(ProgressNotes(slog))].percent.v)
             => slog' = slog]_vars

\* a repeated position arrives 6 seconds or more after the last notification
\* and is not notified
C25_Witness ==
    /\ Len(stderr_lines) = 2
    /\ Len(ProgressNotes(slog)) = 1
    /\ PositionOf(stderr_lines[1]) = F(90000)
    /\ PositionOf(stderr_lines[2]) = F(90000)
    /\ pc = "readline"
    /\ now - slog[1].at >= 6
    /\ last_progress_log_time = slog[1].at

====
